---------------------------- MODULE Spec2Model ----------------------------
(***************************************************************************)
(* The ingestion pipeline of notablehumans: title discovery, batch         *)
(* scheduling, Wikidata enrichment with retry/backoff, and reconciliation  *)
(* into the relational store, coordinated through Redis locks.             *)
(*                                                                         *)
(* Strings of the program are interned: a title is a natural number whose  *)
(* text is TitleText(n); a Redis key is a tuple <<prefix, parts...>>; the  *)
(* SHA-256 of a serialisation is the serialisation itself (injective).     *)
(* Time is the wall clock in whole seconds.                                *)
(***************************************************************************)
EXTENDS Integers, Sequences, FiniteSets, TLC

VARIABLES
    now,         \* wall clock, seconds
    locks,       \* Redis keys set with SET NX EX: key -> [exp, by]
    counters,    \* Redis keys wiki_batches:{task_id}: task_id -> integer
    disc,        \* get_linked_titles_from_day task instances
    sched,       \* get_human_details_in_batches task instances
    hd,          \* get_human_details task instances
    places,      \* table Place: a set of rows
    attributes,  \* table NotableHumanAttribute: a set of rows
    persons,     \* table NotableHuman: a set of rows
    assoc,       \* M2M through table: <<person id, attribute id>> -> row count
    wiki,        \* process_wikipedia_batch task instances
    probe        \* one call of a parser or of the title filter: arguments and result

vars == <<now, locks, counters, disc, sched, hd, places, attributes, persons, assoc, wiki, probe>>

store == <<places, attributes, persons, assoc>>

aux == <<wiki, probe>>

\* Python's None where a text or a date may stand: a sequence that is no text.
None == <<"None">>

\* An optional number is a set of at most one number.
NoNumber == {}

(***************************************************************************)
(* Program constants.                                                      *)
(***************************************************************************)
LOCK_EXPIRE_TIME == 30
QUERY_LOCK_EXPIRE == 60
BATCH_SIZE == 50
OPTIONAL_FIELD_BATCH_SIZE == 5
max_retries == 5
base_delay == 2
TWO_MINUTES == 120
ONE_MINUTE == 60

(***************************************************************************)
(* Bounds of the model.                                                    *)
(***************************************************************************)
MaxTime == 60                   \* the clock stops advancing here
TickStep == LOCK_EXPIRE_TIME    \* granularity of the time that passes in network calls

DiscIds == {1, 2}
SchedIds == {1, 2}
HdIds == {1, 2, 3}

(***************************************************************************)
(* Sequence helpers.                                                       *)
(***************************************************************************)
Range(s) == {s[i] : i \in 1..Len(s)}

Slice(s, from, to) ==
    [i \in 1..((IF to < Len(s) THEN to ELSE Len(s)) - from + 1) |-> s[from + i - 1]]

RECURSIVE Pow2(_)
Pow2(n) == IF n = 0 THEN 1 ELSE 2 * Pow2(n - 1)

(***************************************************************************)
(* Redis as the lock manager.  `by' is a ghost: Redis stores no owner.     *)
(***************************************************************************)
Present(L, k) == k \in DOMAIN L

RedisSetNXOverwrite(L, k, ttl, who, t) ==
    [x \in DOMAIN L \cup {k} |-> IF x = k THEN [exp |-> t + ttl, by |-> who] ELSE L[x]]

\* SET key value EX ttl NX: set only if the key is absent.
RedisSetNX(L, k, ttl, who, t) ==
    IF Present(L, k)
    THEN L
    ELSE [x \in DOMAIN L \cup {k} |-> IF x = k THEN [exp |-> t + ttl, by |-> who] ELSE L[x]]

\* DEL key
RedisDelete(L, k) == [x \in DOMAIN L \ {k} |-> L[x]]

\* A variant in which no key ever runs out.
ExpireNothing(L, t) == L

\* Keys whose TTL ran out are gone.
Expire(L, t) == [x \in {k \in DOMAIN L : L[k].exp > t} |-> L[x]]

DayLockKey(month, day) == <<"wiki_task", <<month, day>>>>

\* json.dumps(batch, sort_keys=True): sort_keys orders dictionary keys only, a
\* list is serialised in its own order; sha256 of it is injective.
BatchHash(batch) == <<"sha256", batch>>

BatchLockKeyConstant(batch) == <<"batch_task", BatchHash(<<>>)>>

BatchLockKey(batch) == <<"batch_task", BatchHash(batch)>>

HumanDetailsLockKey(titles) == <<"human_details_task", BatchHash(titles)>>


(***************************************************************************)
(* Texts.  A string is a sequence of one-character strings.                *)
(***************************************************************************)
DigitChars == <<"0", "1", "2", "3", "4", "5", "6", "7", "8", "9">>

Whitespace == {" "}

Lower(s) ==
    \* str.lower()
    LET LowerChar(c) ==
            LET UpperCase == <<"A", "B", "C", "D", "E", "F", "G", "H", "I", "J", "K", "L", "M", "N", "O", "P", "Q", "R", "S", "T", "U", "V", "W", "X", "Y", "Z">>
                LowerCase == <<"a", "b", "c", "d", "e", "f", "g", "h", "i", "j", "k", "l", "m", "n", "o", "p", "q", "r", "s", "t", "u", "v", "w", "x", "y", "z">>
            IN IF \E i \in 1..Len(UpperCase) : UpperCase[i] = c
               THEN LowerCase[CHOOSE i \in 1..Len(UpperCase) : UpperCase[i] = c]
               ELSE c
    IN
    [i \in 1..Len(s) |-> LowerChar(s[i])]

\* str.lstrip() / str.rstrip()
RECURSIVE LStrip(_)
LStrip(s) == IF s # <<>> /\ Head(s) \in Whitespace THEN LStrip(Tail(s)) ELSE s

RECURSIVE RStrip(_)
RStrip(s) ==
    IF s # <<>> /\ s[Len(s)] \in Whitespace THEN RStrip(SubSeq(s, 1, Len(s) - 1)) ELSE s

\* needle in haystack
Contains(haystack, needle) ==
    \E i \in 0..(Len(haystack) - Len(needle)) :
        \A j \in 1..Len(needle) : haystack[i + j] = needle[j]

\* A variant that knows the namespace prefixes only.
non_human_prefixes ==
    {
        <<"C", "a", "t", "e", "g", "o", "r", "y", ":">>,
        <<"T", "e", "m", "p", "l", "a", "t", "e", ":">>,
        <<"T", "e", "m", "p", "l", "a", "t", "e", " ", "t", "a", "l", "k", ":">>,
        <<"F", "i", "l", "e", ":">>,
        <<"T", "a", "l", "k", ":">>,
        <<"P", "o", "r", "t", "a", "l", ":">>,
        <<"W", "i", "k", "i", "p", "e", "d", "i", "a", ":">>
    }

non_human_keywords ==
    {
        <<"C", "a", "t", "e", "g", "o", "r", "y", ":">>,
        <<"T", "e", "m", "p", "l", "a", "t", "e", ":">>,
        <<"T", "e", "m", "p", "l", "a", "t", "e", " ", "t", "a", "l", "k", ":">>,
        <<"F", "i", "l", "e", ":">>,
        <<"T", "a", "l", "k", ":">>,
        <<"L", "i", "s", "t", " ", "o", "f">>,
        <<"P", "o", "r", "t", "a", "l", ":">>,
        <<"W", "i", "k", "i", "p", "e", "d", "i", "a", ":">>
    }

is_probably_human(title) ==
    LET StartsWithDigit(s) == s # <<>> /\ s[1] \in Range(DigitChars)
        EndsWithDigit(s) == s # <<>> /\ s[Len(s)] \in Range(DigitChars)
    IN
    IF (StartsWithDigit(LStrip(title)) \/ EndsWithDigit(RStrip(title)))
       /\ ~(title # <<>> /\ title[Len(title)] = ")")
    THEN FALSE
    ELSE \A keyword \in non_human_keywords : ~Contains(Lower(title), Lower(keyword))

\* Decimal digits of a natural number.
RECURSIVE DigitsOf(_)
DigitsOf(n) == IF n < 10 THEN <<DigitChars[n + 1]>> ELSE DigitsOf(n \div 10) \o <<DigitChars[(n % 10) + 1]>>

\* The titles are interned: 0 is a list page, every other number n is an
\* article "P<n> (x)".
Titles == 0..(BATCH_SIZE + 1)

TitleText ==
    [n \in Titles |->
        IF n = 0
        THEN <<"L", "i", "s", "t", " ", "o", "f", " ", "x">>
        ELSE <<"P">> \o DigitsOf(n) \o <<" ", "(", "x", ")">>]

(***************************************************************************)
(* The link-discovery endpoint: the pages of links of a calendar day's     *)
(* article, in continuation order.                                         *)
(***************************************************************************)
\* Two pages: a list page and an article, then another article.
DayPages(month, day) == <<<<0, 1>>, <<2>>>>

\* [link["title"] for link in links if is_probably_human(link["title"])]
RECURSIVE HumanLinks(_)
HumanLinks(links) ==
    IF links = <<>>
    THEN <<>>
    ELSE (IF is_probably_human(TitleText[Head(links)]) THEN <<Head(links)>> ELSE <<>>)
         \o HumanLinks(Tail(links))

(***************************************************************************)
(* Task instances.  A dispatch (apply_async) fills the first idle slot.    *)
(***************************************************************************)
IdleDisc == [pc |-> "idle", month |-> "", day |-> 0, page |-> 0, all_titles |-> <<>>]

IdleSched == [pc |-> "idle", month |-> "", day |-> 0, titles |-> <<>>, batches |-> <<>>,
              task_id |-> 0, i |-> 0]

FreeSlots(tasks) == {s \in DOMAIN tasks : tasks[s].pc = "idle"}

FirstFree(tasks) == CHOOSE s \in FreeSlots(tasks) : \A r \in FreeSlots(tasks) : s <= r

(***************************************************************************)
(* get_linked_titles_from_day                                              *)
(***************************************************************************)
\* The beat schedule (schedule_wikidata_data_collection) or a redelivery
\* queues a discovery of a calendar day.
DiscQueue(d, month, day) ==
    /\ disc[d].pc = "idle"
    /\ disc' = [disc EXCEPT ![d] = [IdleDisc EXCEPT !.pc = "queued", !.month = month, !.day = day]]
    /\ UNCHANGED <<now, locks, counters, sched, hd, store, aux>>

\* The task starts: REDIS_CLIENT.set(lock_key, "locked", ex=LOCK_EXPIRE_TIME, nx=True);
\* when the key is present the task raises Ignore.
DiscStart(d) ==
    /\ disc[d].pc = "queued"
    /\ LET key == DayLockKey(disc[d].month, disc[d].day) IN
        /\ locks' = RedisSetNX(locks, key, LOCK_EXPIRE_TIME, <<"disc", d>>, now)
        /\ disc' = [disc EXCEPT ![d].pc = IF Present(locks, key) THEN "ignored" ELSE "fetch",
                                ![d].page = 1]
    /\ UNCHANGED <<now, counters, sched, hd, store, aux>>

\* One iteration of the pagination loop with a successful response.  The
\* last page dispatches the scheduler and the finally clause deletes the lock.
DiscFetch(d) ==
    \* get_human_details_in_batches.apply_async(args=(month, day, all_titles))
    LET DispatchSched(S, month, day, titles) ==
            [S EXCEPT ![FirstFree(S)] =
                [IdleSched EXCEPT !.pc = "queued", !.month = month, !.day = day, !.titles = titles]]
    IN
    /\ disc[d].pc = "fetch"
    /\ LET pages == DayPages(disc[d].month, disc[d].day)
           titles == disc[d].all_titles \o HumanLinks(pages[disc[d].page])
       IN
        IF disc[d].page < Len(pages)
        THEN /\ disc' = [disc EXCEPT ![d].all_titles = titles, ![d].page = @ + 1]
             /\ UNCHANGED <<locks, sched>>
        ELSE /\ FreeSlots(sched) # {}
             /\ disc' = [disc EXCEPT ![d].all_titles = titles, ![d].pc = "done"]
             /\ sched' = DispatchSched(sched, disc[d].month, disc[d].day, titles)
             /\ locks' = RedisDelete(locks, DayLockKey(disc[d].month, disc[d].day))
    /\ UNCHANGED <<now, counters, hd, store, aux>>

\* A variant that dispatches the titles collected before the failure.
DiscFetchErrorDispatches(d) ==
    /\ disc[d].pc = "fetch"
    /\ FreeSlots(sched) # {}
    /\ disc' = [disc EXCEPT ![d].pc = "failed"]
    /\ sched' = [sched EXCEPT ![FirstFree(sched)] =
                    [IdleSched EXCEPT !.pc = "queued", !.month = disc[d].month, !.day = disc[d].day,
                                      !.titles = disc[d].all_titles]]
    /\ locks' = RedisDelete(locks, DayLockKey(disc[d].month, disc[d].day))
    /\ UNCHANGED <<now, counters, hd, store, aux>>

\* response.raise_for_status() raises: requests.RequestException is logged,
\* nothing is dispatched, the finally clause deletes the lock.
DiscFetchError(d) ==
    /\ disc[d].pc = "fetch"
    /\ disc' = [disc EXCEPT ![d].pc = "failed"]
    /\ locks' = RedisDelete(locks, DayLockKey(disc[d].month, disc[d].day))
    /\ UNCHANGED <<now, counters, sched, hd, store, aux>>

(***************************************************************************)
(* get_human_details_in_batches                                            *)
(***************************************************************************)
\* A variant whose chunks take one element more.
ChunksOverlapping(titles, size) ==
    [k \in 1..((Len(titles) + size - 1) \div size) |->
        Slice(titles, (k - 1) * size + 1, k * size + 1)]

\* [titles[i : i + BATCH_SIZE] for i in range(0, len(titles), BATCH_SIZE)]
Chunks(titles, size) ==
    [k \in 1..((Len(titles) + size - 1) \div size) |->
        Slice(titles, (k - 1) * size + 1, k * size)]


\* get_human_details.apply_async(args=(month, day, batch, task_id))
IdleHd ==
    [pc |-> "idle", titles |-> <<>>, task_id |-> 0, src |-> 0,
     g |-> 0, attempt |-> 0, sends |-> 0, is_first_batch |-> TRUE, retry_after |-> 0, wake |-> 0,
     malformed |-> {}, failed |-> {}, txn |-> "none",
     two_minutes_ago |-> 0, one_minute_ago |-> 0,
     existing_humans |-> {}, recent_human_ids |-> {},
     existing_places |-> {}, recent_place_ids |-> {},
     existing_attributes |-> {}, recent_attribute_ids |-> {},
     humans_to_create_dict |-> <<>>, humans_to_update_dict |-> <<>>,
     places_to_create |-> <<>>, attributes_to_create |-> <<>>]

\* task_id = str(int(time.time())); REDIS_CLIENT.set(f"wiki_batches:{task_id}", len(batches))
SchedStart(s) ==
    /\ sched[s].pc = "queued"
    /\ LET batches == Chunks(sched[s].titles, BATCH_SIZE) IN
        /\ sched' = [sched EXCEPT ![s].batches = batches, ![s].task_id = now, ![s].i = 1,
                                  ![s].pc = IF batches = <<>> THEN "done" ELSE "loop"]
        /\ counters' = [x \in DOMAIN counters \cup {now} |->
                            IF x = now THEN Len(batches) ELSE counters[x]]
    /\ UNCHANGED <<now, locks, disc, hd, store, aux>>

\* One iteration of `for batch in batches': the batch lock is taken or the
\* batch is skipped; a batch whose lock was taken is dispatched.
SchedBatch(s) ==
    \* src is a ghost: the scheduler run that dispatched the task.
    LET DispatchHd(H, batch, task_id, src) ==
            [H EXCEPT ![FirstFree(H)] =
                [IdleHd EXCEPT !.pc = "queued", !.titles = batch, !.task_id = task_id, !.src = src]]
    IN
    /\ sched[s].pc = "loop"
    /\ LET batch == sched[s].batches[sched[s].i]
           key == BatchLockKey(batch)
       IN
        /\ locks' = RedisSetNX(locks, key, LOCK_EXPIRE_TIME, <<"sched", s>>, now)
        /\ IF Present(locks, key)
           THEN UNCHANGED hd
           ELSE /\ FreeSlots(hd) # {}
                /\ hd' = DispatchHd(hd, batch, sched[s].task_id, s)
        /\ sched' = [sched EXCEPT ![s].i = @ + 1,
                                  ![s].pc = IF sched[s].i = Len(sched[s].batches) THEN "done" ELSE "loop"]
    /\ UNCHANGED <<now, counters, disc, store, aux>>

(***************************************************************************)
(* Time.  A network call, a queue wait or a sleep lets the clock advance;  *)
(* Redis drops the keys whose TTL has run out.                             *)
(***************************************************************************)
Tick ==
    /\ now + TickStep <= MaxTime
    /\ now' = now + TickStep
    /\ locks' = Expire(locks, now + TickStep)
    /\ UNCHANGED <<counters, disc, sched, hd, store, aux>>


(***************************************************************************)
(* String operations of the parsers (strings are character sequences).     *)
(***************************************************************************)
StartsWith(s, prefix) == Len(s) >= Len(prefix) /\ SubSeq(s, 1, Len(prefix)) = prefix

Strip(s) == LStrip(RStrip(s))

\* Index of the first occurrence of sep in s, 0 when there is none.
FindStr(s, sep) ==
    LET hits == {i \in 1..(Len(s) - Len(sep) + 1) : SubSeq(s, i, i + Len(sep) - 1) = sep} IN
    IF hits = {} THEN 0 ELSE CHOOSE i \in hits : \A j \in hits : i <= j

\* str.split(sep)
RECURSIVE SplitStr(_, _)
SplitStr(s, sep) ==
    LET i == FindStr(s, sep) IN
    IF i = 0
    THEN <<s>>
    ELSE <<SubSeq(s, 1, i - 1)>> \o SplitStr(SubSeq(s, i + Len(sep), Len(s)), sep)

\* str.replace(old, "")
RECURSIVE RemoveStr(_, _)
RemoveStr(s, old) ==
    LET i == FindStr(s, old) IN
    IF i = 0
    THEN s
    ELSE SubSeq(s, 1, i - 1) \o RemoveStr(SubSeq(s, i + Len(old), Len(s)), old)

\* str.split() without a separator: runs of whitespace separate, no empty part.
RECURSIVE SplitWhitespace(_)
SplitWhitespace(s) ==
    LET t == LStrip(s)
        ends == {i \in 1..Len(t) : t[i] \in Whitespace}
        stop == IF ends = {} THEN Len(t) + 1 ELSE CHOOSE i \in ends : \A j \in ends : i <= j
    IN
    IF t = <<>>
    THEN <<>>
    ELSE <<SubSeq(t, 1, stop - 1)>> \o SplitWhitespace(SubSeq(t, stop, Len(t)))

LastOf(parts) == parts[Len(parts)]

IsDigits(s) == s # <<>> /\ \A i \in 1..Len(s) : s[i] \in Range(DigitChars)

RECURSIVE DigitsValue(_)
DigitsValue(s) ==
    LET DigitValue(c) == (CHOOSE i \in 1..10 : DigitChars[i] = c) - 1
    IN IF s = <<>> THEN 0 ELSE 10 * DigitsValue(SubSeq(s, 1, Len(s) - 1)) + DigitValue(s[Len(s)])

\* int(text): surrounding whitespace and one sign are accepted; anything else
\* raises ValueError.
IntBody(s) == IF Strip(s) # <<>> /\ Strip(s)[1] \in {"+", "-"} THEN Tail(Strip(s)) ELSE Strip(s)

\* float(text), kept in millionths (the columns are DecimalField(decimal_places=6)).
FloatParts(s) == SplitStr(IntBody(s), <<".">>)

RECURSIVE Pow10(_)
Pow10(n) == IF n = 0 THEN 1 ELSE 10 * Pow10(n - 1)

FloatOf(s) ==
    LET Pad6(digits) == [i \in 1..6 |-> IF i <= Len(digits) THEN digits[i] ELSE "0"]
        parts == FloatParts(s)
        whole == DigitsValue(parts[1])
        frac == IF Len(parts) = 2 THEN DigitsValue(Pad6(parts[2])) ELSE 0
        magnitude == whole * Pow10(6) + frac
    IN IF Strip(s)[1] = "-" THEN 0 - magnitude ELSE magnitude

(***************************************************************************)
(* Place.parse_coordinates                                                 *)
(***************************************************************************)
HTTP == <<"h", "t", "t", "p">>

CoordParts(coord_string) == SplitWhitespace(RemoveStr(RemoveStr(coord_string, <<"P", "o", "i", "n", "t", "(">>), <<")">>))

\* A variant that returns the latitude only.
parse_coordinates_latitude(coord_string) ==
    IF coord_string # None /\ coord_string # <<>> /\ ~StartsWith(coord_string, HTTP)
    THEN <<{FloatOf(CoordParts(coord_string)[2])}, NoNumber>>
    ELSE <<NoNumber, NoNumber>>

\* <<latitude, longitude>>
parse_coordinates(coord_string) ==
    IF coord_string # None /\ coord_string # <<>> /\ ~StartsWith(coord_string, HTTP)
    THEN <<{FloatOf(CoordParts(coord_string)[2])}, {FloatOf(CoordParts(coord_string)[1])}>>
    ELSE <<NoNumber, NoNumber>>

(***************************************************************************)
(* NotableHuman.parse_date                                                 *)
(***************************************************************************)
date_candidates(date_values, date_statements) ==
    \* The candidates of one raw value: its '|' parts that are no URL, stripped.
    LET DateParts(raw) ==
            IF raw = None \/ raw = <<>>
            THEN {}
            ELSE {Strip(part) : part \in {x \in Range(SplitStr(raw, <<"|">>)) : ~StartsWith(x, HTTP)}}
    IN
    DateParts(date_values) \cup DateParts(date_statements)

\* datetime(year, month, day) accepts the date
ValidDate(year, month, day) ==
    LET IsLeap == (year % 4 = 0 /\ year % 100 # 0) \/ year % 400 = 0
        DaysInMonth == IF month = 2 THEN (IF IsLeap THEN 29 ELSE 28)
                       ELSE IF month \in {4, 6, 9, 11} THEN 30 ELSE 31
    IN /\ year \in 1..9999
       /\ month \in 1..12
       /\ day \in 1..DaysInMonth

\* A variant that keeps the time part.
DateBodyWhole(date_str) == date_str

\* date_str.split("T")[0]
DateBody(date_str) == SplitStr(date_str, <<"T">>)[1]

\* What one loop iteration does with a candidate: "return" a date, "skip" on
\* ValueError, or "raise" (date_str[0] of an empty string is an IndexError).
TryDate(date_str) ==
    LET IntOf(s) ==
            IF Strip(s)[1] = "-" THEN 0 - DigitsValue(IntBody(s)) ELSE DigitsValue(IntBody(s))
    IN
    LET IsInt(s) == IsDigits(IntBody(s))
    IN
    IF DateBody(date_str) = <<>>
    THEN [kind |-> "raise", date |-> None, is_bc |-> FALSE]
    ELSE LET is_bc == DateBody(date_str)[1] = "-"
             parts == SplitStr(IF is_bc THEN Tail(DateBody(date_str)) ELSE DateBody(date_str), <<"-">>)
         IN
         IF Len(parts) = 3 /\ (\A i \in 1..3 : IsInt(parts[i]))
            /\ ValidDate(IntOf(parts[1]), IntOf(parts[2]), IntOf(parts[3]))
         THEN [kind |-> "return",
               date |-> <<IntOf(parts[1]), IntOf(parts[2]), IntOf(parts[3])>>,
               is_bc |-> is_bc]
         ELSE [kind |-> "skip", date |-> None, is_bc |-> FALSE]

\* The results parse_date can produce: the candidates are a Python set, and
\* the first one in iteration order that returns or raises decides.
parse_date(date_values, date_statements) ==
    LET decided == {TryDate(c) : c \in date_candidates(date_values, date_statements)}
                       \ {[kind |-> "skip", date |-> None, is_bc |-> FALSE]}
    IN IF decided = {} THEN {[kind |-> "return", date |-> None, is_bc |-> FALSE]} ELSE decided


(***************************************************************************)
(* Python dictionaries keep insertion order: a sequence of [k, v] entries. *)
(***************************************************************************)
DictHas(d, key) == \E i \in 1..Len(d) : d[i].k = key

DictGet(d, key) == d[CHOOSE i \in 1..Len(d) : d[i].k = key].v

\* d[key] = value: a present key keeps its position
DictSet(d, key, value) ==
    IF DictHas(d, key)
    THEN [i \in 1..Len(d) |-> IF d[i].k = key THEN [k |-> key, v |-> value] ELSE d[i]]
    ELSE Append(d, [k |-> key, v |-> value])

\* d.update(other)
RECURSIVE DictUpdate(_, _)
DictUpdate(d, other) ==
    IF other = <<>> THEN d ELSE DictUpdate(DictSet(d, Head(other).k, Head(other).v), Tail(other))

(***************************************************************************)
(* The relational store.  A table is a set of rows; the constraints are    *)
(* those of models.py: wikidata_id is the primary key of each table,       *)
(* Place.name is unique, the through table is unique per pair.             *)
(***************************************************************************)
HasPk(table, id) == \E r \in table : r.wikidata_id = id

ByPk(table, id) == CHOOSE r \in table : r.wikidata_id = id

Pks(table) == {r.wikidata_id : r \in table}

\* A variant that keeps the written row only.
ReplaceRowAlone(table, row) == {row}

\* UPDATE ... WHERE wikidata_id = row.wikidata_id
ReplaceRow(table, row) == {r \in table : r.wikidata_id # row.wikidata_id} \cup {row}

PlaceRow(id, name, latitude, longitude, last_updated) ==
    [wikidata_id |-> id, name |-> name, latitude |-> latitude, longitude |-> longitude,
     last_updated |-> last_updated]

AttributeRow(id, label, category, last_updated) ==
    [wikidata_id |-> id, label |-> label, category |-> category, last_updated |-> last_updated]

UNRATED_ARTICLE == "unrated"

GOOD_ARTICLE == "good"

FEATURED_ARTICLE == "featured"

PersonRow(id, name, core, birth_place, death_place, last_wikidata_update) ==
    [wikidata_id |-> id, name |-> name, wikipedia_url |-> core.wikipedia_url,
     birth_date |-> core.birth_date, is_birth_bc |-> core.is_birth_bc,
     death_date |-> core.death_date, is_death_bc |-> core.is_death_bc,
     birth_place |-> birth_place, death_place |-> death_place,
     last_wikidata_update |-> last_wikidata_update,
     description |-> <<>>, article_length |-> NoNumber, article_recent_views |-> NoNumber,
     article_quality |-> UNRATED_ARTICLE, article_created_date |-> None,
     article_total_edits |-> NoNumber, article_recent_edits |-> NoNumber,
     last_wikipedia_update |-> NoNumber]

\* INSERT ... ON CONFLICT DO NOTHING, row by row (bulk_create(ignore_conflicts=True))
RECURSIVE BulkCreatePlaces(_, _)
BulkCreatePlaces(table, rows) ==
    IF rows = <<>>
    THEN table
    ELSE BulkCreatePlaces(
             IF HasPk(table, Head(rows).wikidata_id) \/ (\E r \in table : r.name = Head(rows).name)
             THEN table
             ELSE table \cup {Head(rows)},
             Tail(rows))

RECURSIVE BulkCreateNoCheck(_, _)
BulkCreateNoCheck(table, rows) ==
    IF rows = <<>> THEN table ELSE BulkCreateNoCheck(table \cup {Head(rows)}, Tail(rows))

RECURSIVE BulkCreate(_, _)
BulkCreate(table, rows) ==
    IF rows = <<>>
    THEN table
    ELSE BulkCreate(
             IF HasPk(table, Head(rows).wikidata_id) THEN table ELSE table \cup {Head(rows)},
             Tail(rows))


(***************************************************************************)
(* The SPARQL query of one attribute group.                                *)
(***************************************************************************)
ATTRIBUTE_CHOICES ==
    <<"gender", "occupation", "ethnic_group", "field_of_work", "member_of",
      "manner_of_death", "cause_of_death", "handedness", "convicted_of", "award_received",
      "native_language", "political_ideology", "honorific_prefix", "religion_or_worldview",
      "medical_condition", "conflict", "educated_at", "academic_degree",
      "social_classification", "position_held">>

\* list(chunk_optional_fields(OPTIONAL_FIELD_BATCH_SIZE))
AttributeBatches == Chunks(ATTRIBUTE_CHOICES, OPTIONAL_FIELD_BATCH_SIZE)

RECURSIVE Quote(_)
Quote(text) ==
    \* quote(title.replace(' ', '_'), safe=':/')
    LET QuoteChar(c) ==
            IF c = " " THEN <<"_">>
            ELSE IF c = "(" THEN <<"%", "2", "8">>
            ELSE IF c = ")" THEN <<"%", "2", "9">>
            ELSE <<c>>
    IN
    IF text = <<>> THEN <<>> ELSE QuoteChar(Head(text)) \o Quote(Tail(text))

ArticleName == [n \in Titles |-> Quote(TitleText[n])]

\* The query text is determined by the select list (core fields or not), the
\* optional fields of the batch and the article URIs of the titles.
get_sparql_query(titles, attribute_batch, is_first_batch) ==
    [core |-> is_first_batch,
     optional |-> SelectSeq(ATTRIBUTE_CHOICES, LAMBDA f : f \in Range(attribute_batch)),
     articles |-> [i \in 1..Len(titles) |-> ArticleName[titles[i]]]]

get_query_lock_key(query) == <<"sparql_lock", <<"sha256", query>>>>

(***************************************************************************)
(* Processing one response of the endpoint (tasks.py 242-317).  A context  *)
(* carries the task's memory and the two tables that model.save() writes   *)
(* at once, outside any transaction.                                       *)
(***************************************************************************)
Raise(c) == [c EXCEPT !.raised = TRUE]

Falsy(x) == x = None \/ x = <<>>

\* The place of one round is known (place_data): an existing record is
\* compared and saved, a new one is remembered in to_create.
StorePlace(acc, row) ==
    \* Decimal (stored) != float (parsed): equal only for the same number, and a
    \* float equals a decimal only if it is exact in binary (millionths that are
    \* a multiple of 5^6).
    LET DecimalDiffersFromFloat(stored, parsed) ==
            stored # parsed \/ \E x \in parsed : x % 15625 # 0
    IN
    LET c == acc.c IN
    IF HasPk(c.t.existing_places, row.wikidata_id)
    THEN LET place == ByPk(c.t.existing_places, row.wikidata_id) IN
         IF place.name # row.name
            \/ DecimalDiffersFromFloat(place.latitude, row.latitude)
            \/ DecimalDiffersFromFloat(place.longitude, row.longitude)
         THEN \* place.save(): the unique name or NOT NULL may refuse it
              IF row.name = None
                 \/ (\E r \in c.places : r.wikidata_id # row.wikidata_id /\ r.name = row.name)
              THEN [acc EXCEPT !.c.t.existing_places = ReplaceRow(@, row),
                               !.c.raised = TRUE]
              ELSE [acc EXCEPT !.c.t.existing_places = ReplaceRow(@, row),
                               !.c.places = ReplaceRow(@, row)]
         ELSE acc
    ELSE IF DictHas(acc.to_create, row.wikidata_id)
    THEN acc
    ELSE [acc EXCEPT !.to_create = DictSet(@, row.wikidata_id, row)]

\* One round of the loop of Place.parse_and_update; acc = [c, to_create].
\* What the round leads to, as a set.
ParsePlace(acc, result, keys, tnow) ==
    LET IsFloat(s) ==
            /\ Len(FloatParts(s)) \in {1, 2}
            /\ \A i \in 1..Len(FloatParts(s)) : FloatParts(s)[i] = <<>> \/ IsDigits(FloatParts(s)[i])
            /\ \E i \in 1..Len(FloatParts(s)) : FloatParts(s)[i] # <<>>
    IN
    \* coord_parts[1] or float() raises IndexError / ValueError
    LET CoordinatesRaise(coord_string) ==
            /\ coord_string # None
            /\ coord_string # <<>>
            /\ ~StartsWith(coord_string, HTTP)
            /\ \/ Len(CoordParts(coord_string)) < 2
               \/ ~IsFloat(CoordParts(coord_string)[1])
               \/ ~IsFloat(CoordParts(coord_string)[2])
    IN
    IF acc.c.raised \/ Falsy(result[keys.id]) \/ result[keys.id] \in acc.c.t.recent_place_ids
    THEN {acc}
    ELSE IF CoordinatesRaise(result[keys.coord])
    THEN {[acc EXCEPT !.c.raised = TRUE]}
    ELSE {StorePlace(acc, row) :
            row \in {PlaceRow(result[keys.id], result[keys.label], coordinates[1],
                              coordinates[2], tnow) :
                        coordinates \in {parse_coordinates(result[keys.coord])}}}

\* places_to_create.update(Place.parse_and_update(result, recent_place_ids, existing_places)):
\* the birth place, then the death place.  The context it leads to, as a set.
parse_and_update(c, result, tnow) ==
    \* places_to_create.update(to_create), unless parse_and_update raised
    LET UpdatePlacesToCreate(acc) ==
            IF acc.c.raised
            THEN acc.c
            ELSE [acc.c EXCEPT !.t.places_to_create = DictUpdate(@, acc.to_create)]
    IN
    LET BirthKeys == [label |-> "birthPlaceLabel", id |-> "birthPlaceID", coord |-> "birthPlaceCoordinates"]
        DeathKeys == [label |-> "deathPlaceLabel", id |-> "deathPlaceID", coord |-> "deathPlaceCoordinates"]
    IN
    {UpdatePlacesToCreate(death) :
        death \in UNION {ParsePlace(birth, result, DeathKeys, tnow) :
            birth \in ParsePlace([c |-> c, to_create |-> <<>>], result, BirthKeys, tnow)}}

\* One attr_pair of one attribute field; acc = [c, ids].
ParseAttrPair(acc, attr_pair, attribute_choice, tnow) ==
    LET c == acc.c
        parts == SplitStr(attr_pair, <<"|", "|">>)
    IN
    IF c.raised
    THEN acc
    ELSE IF Len(parts) # 2
    THEN [acc EXCEPT !.c = Raise(c)]
    ELSE
        LET attr_id == parts[1]
            attr_label == parts[2]
            row == AttributeRow(attr_id, attr_label, attribute_choice, tnow)
        IN
        IF attr_id = <<>>
        THEN acc
        ELSE IF attr_id \in c.t.recent_attribute_ids
        THEN [acc EXCEPT !.ids = @ \cup {attr_id}]
        ELSE IF HasPk(c.t.existing_attributes, attr_id)
        THEN LET attribute == ByPk(c.t.existing_attributes, attr_id) IN
             IF attribute.label # attr_label \/ attribute.category # attribute_choice
             THEN \* attribute.save()
                  [acc EXCEPT !.ids = @ \cup {attr_id},
                              !.c.t.existing_attributes = ReplaceRow(@, row),
                              !.c.attributes = ReplaceRow(@, row)]
             ELSE [acc EXCEPT !.ids = @ \cup {attr_id}]
        ELSE IF DictHas(c.t.attributes_to_create, attr_id)
        THEN [acc EXCEPT !.ids = @ \cup {attr_id}]
        ELSE [acc EXCEPT !.ids = @ \cup {attr_id},
                         !.c.t.attributes_to_create = DictSet(@, attr_id, row)]

RECURSIVE ParseAttrPairs(_, _, _, _)
ParseAttrPairs(acc, pairs, attribute_choice, tnow) ==
    IF pairs = <<>>
    THEN acc
    ELSE ParseAttrPairs(ParseAttrPair(acc, Head(pairs), attribute_choice, tnow),
                        Tail(pairs), attribute_choice, tnow)

\* for attribute_choice in ATTRIBUTE_CHOICES: ...
RECURSIVE ParseAttributes(_, _, _, _)
ParseAttributes(acc, result, choices, tnow) ==
    IF choices = <<>>
    THEN acc
    ELSE LET attr_data == IF Head(choices) \in DOMAIN result.attrs
                          THEN result.attrs[Head(choices)] ELSE None
         IN ParseAttributes(
                IF Falsy(attr_data)
                THEN acc
                ELSE ParseAttrPairs(acc, SplitStr(attr_data, <<"@", "@">>), Head(choices), tnow),
                result, Tail(choices), tnow)

\* humans_to_update_dict / humans_to_create_dict, unless the row raised
RecordRow(acc, result, wikidata_id, has_core, core) ==
    \* The bookkeeping of one sighted human (tasks.py 301-317).
    LET RecordHuman(c, id, human_data) ==
            \* human_data.update(other): the keys of other replace those present
            LET MergeHumanData(old, new) ==
                    [name |-> new.name,
                     has_core |-> old.has_core \/ new.has_core,
                     core |-> IF new.has_core THEN new.core ELSE old.core,
                     attributes |-> old.attributes \cup new.attributes]
            IN
            IF id \in c.t.existing_humans
            THEN IF DictHas(c.t.humans_to_update_dict, id)
                 THEN [c EXCEPT !.t.humans_to_update_dict =
                          DictSet(@, id, MergeHumanData(DictGet(@, id), human_data))]
                 ELSE [c EXCEPT !.t.humans_to_update_dict = DictSet(@, id, human_data)]
            ELSE IF DictHas(c.t.humans_to_create_dict, id)
                 THEN c
                 ELSE [c EXCEPT !.t.humans_to_create_dict = DictSet(@, id, human_data)]
    IN
    IF acc.c.raised
    THEN acc.c
    ELSE RecordHuman(acc.c, wikidata_id,
                     [name |-> result.itemLabel, has_core |-> has_core, core |-> core,
                      attributes |-> acc.ids])

\* The row after its main fields are parsed: places (first group only),
\* attributes, the human.  The context it leads to, as a set.
FinishRow(c, result, wikidata_id, has_core, core, tnow) ==
    {RecordRow(acc, result, wikidata_id, has_core, core) :
        acc \in {ParseAttributes([c |-> p, ids |-> {}], result, ATTRIBUTE_CHOICES, tnow) :
            p \in (IF has_core THEN parse_and_update(c, result, tnow) ELSE {c})}}

\* The contexts one result row can lead to (parse_date iterates a set).
ProcessRow(c, result, is_first_batch, tnow) ==
    LET CoreData(row, birth, death) ==
            [wikipedia_url |-> IF Falsy(row.article) THEN <<>>
                               ELSE LastOf(SplitStr(row.article, <<"/">>)),
             birth_date |-> birth.date, is_birth_bc |-> birth.is_bc,
             death_date |-> death.date, is_death_bc |-> death.is_bc,
             birth_place_id |-> row.birthPlaceID, death_place_id |-> row.deathPlaceID]
    IN
    \* human_data of a row of a later group: only "name" (and "attributes")
    LET NoCoreData ==
            [wikipedia_url |-> None, birth_date |-> None, is_birth_bc |-> FALSE,
             death_date |-> None, is_death_bc |-> FALSE,
             birth_place_id |-> None, death_place_id |-> None]
    IN
    LET wikidata_id == LastOf(SplitStr(result.item, <<"/">>)) IN
    IF wikidata_id # <<>> /\ wikidata_id \in c.t.recent_human_ids
    THEN {c}
    ELSE IF result.itemLabel = None
    THEN {Raise(c)}
    ELSE IF ~is_first_batch
    THEN FinishRow(c, result, wikidata_id, FALSE, NoCoreData, tnow)
    ELSE UNION {IF birth.kind = "raise" \/ death.kind = "raise"
                THEN {Raise(c)}
                ELSE FinishRow(c, result, wikidata_id, TRUE, CoreData(result, birth, death), tnow) :
                  <<birth, death>> \in parse_date(result.dobValues, result.dobStatements)
                                       \X parse_date(result.dodValues, result.dodStatements)}

\* for result in results["results"]["bindings"]: an exception ends the loop
RECURSIVE ProcessRows(_, _, _, _)
ProcessRows(cs, rows, is_first_batch, tnow) ==
    IF rows = <<>>
    THEN cs
    ELSE ProcessRows(
             UNION {IF c.raised THEN {c} ELSE ProcessRow(c, Head(rows), is_first_batch, tnow) : c \in cs},
             Tail(rows), is_first_batch, tnow)


(***************************************************************************)
(* The reconciliation transaction (tasks.py 334-429).                      *)
(***************************************************************************)
\* existing_places.get(place_id) if place_id else None
PlaceRef(P, place_id) == IF ~Falsy(place_id) /\ HasPk(P, place_id) THEN place_id ELSE None

\* bulk_update: the listed fields of the rows with these primary keys
RECURSIVE BulkUpdatePersons(_, _, _, _)
BulkUpdatePersons(H, entries, P, tnow) ==
    IF entries = <<>>
    THEN H
    ELSE LET e == Head(entries) IN
         BulkUpdatePersons(
             {IF r.wikidata_id # e.k
              THEN r
              ELSE [r EXCEPT !.name = e.v.name,
                             !.wikipedia_url = e.v.core.wikipedia_url,
                             !.birth_date = e.v.core.birth_date,
                             !.is_birth_bc = e.v.core.is_birth_bc,
                             !.death_date = e.v.core.death_date,
                             !.is_death_bc = e.v.core.is_death_bc,
                             !.birth_place = PlaceRef(P, e.v.core.birth_place_id),
                             !.death_place = PlaceRef(P, e.v.core.death_place_id),
                             !.last_wikidata_update = tnow] : r \in H},
             Tail(entries), P, tnow)

TransactionResult(h, P, A, H, M, tnow) ==
    LET NewPersons(task, table, at) ==
            [i \in 1..Len(task.humans_to_create_dict) |->
                LET e == task.humans_to_create_dict[i] IN
                PersonRow(e.k, e.v.name, e.v.core, PlaceRef(table, e.v.core.birth_place_id),
                          PlaceRef(table, e.v.core.death_place_id), at)]
    IN
    \* The through table as a bag: pair -> number of rows.
    \* bulk_create(..., ignore_conflicts=True) on the through table, and
    \* human.attributes.add(*objs): only the missing pairs are inserted.
    LET ThroughInsert(through, pairs) ==
            [x \in DOMAIN through \cup pairs |-> IF x \in DOMAIN through THEN through[x] ELSE 1]
    IN
    LET DictValues(d) == [i \in 1..Len(d) |-> d[i].v]
    IN
    LET P1 == BulkCreatePlaces(P, DictValues(h.places_to_create))
        A1 == BulkCreate(A, DictValues(h.attributes_to_create))
        H1 == BulkCreate(H, NewPersons(h, P1, tnow))
        created == {<<e.k, a>> : e \in {x \in Range(h.humans_to_create_dict) : HasPk(H1, x.k)},
                                 a \in Pks(A1)}
        M1 == ThroughInsert(M, {pr \in created :
                    pr[2] \in DictGet(h.humans_to_create_dict, pr[1]).attributes})
        H2 == BulkUpdatePersons(H1, h.humans_to_update_dict, P1, tnow)
        updated == {<<e.k, a>> : e \in Range(h.humans_to_update_dict), a \in Pks(A1)}
        M2 == ThroughInsert(M1, {pr \in updated :
                    pr[2] \in DictGet(h.humans_to_update_dict, pr[1]).attributes})
    IN [places |-> P1, attributes |-> A1, persons |-> H2, assoc |-> M2]

(***************************************************************************)
(* get_human_details                                                       *)
(***************************************************************************)
HdKey(t) == HumanDetailsLockKey(hd[t].titles)

\* if not REDIS_CLIENT.set(lock_key, "processing", ex=LOCK_EXPIRE_TIME, nx=True): return
HdStart(t) ==
    /\ hd[t].pc = "queued"
    /\ locks' = RedisSetNX(locks, HdKey(t), LOCK_EXPIRE_TIME, <<"hd", t>>, now)
    /\ hd' = [hd EXCEPT ![t].pc = IF Present(locks, HdKey(t)) THEN "skipped" ELSE "load"]
    /\ UNCHANGED <<now, counters, disc, sched, store, aux>>

\* The time window and the six reads of the store (tasks.py 198-218), taken
\* as one snapshot.
HdLoad(t) ==
    /\ hd[t].pc = "load"
    /\ hd' = [hd EXCEPT
            ![t].pc = "qlock",
            ![t].g = 1,
            ![t].is_first_batch = TRUE,
            ![t].two_minutes_ago = now - TWO_MINUTES,
            ![t].one_minute_ago = now - ONE_MINUTE,
            ![t].existing_humans = Pks(persons),
            ![t].recent_human_ids =
                {r.wikidata_id : r \in {x \in persons :
                    /\ x.last_wikidata_update >= now - TWO_MINUTES
                    /\ x.last_wikidata_update < now - ONE_MINUTE}},
            ![t].existing_places = places,
            ![t].recent_place_ids =
                {r.wikidata_id : r \in {x \in places : x.last_updated >= now - TWO_MINUTES}},
            ![t].existing_attributes = attributes,
            ![t].recent_attribute_ids =
                {r.wikidata_id : r \in {x \in attributes : x.last_updated >= now - TWO_MINUTES}}]
    /\ UNCHANGED <<now, locks, counters, disc, sched, store, aux>>

AfterQueryLockIgnored(h, present) == [h EXCEPT !.pc = "attempt", !.attempt = 0, !.sends = 0]

\* The query lock was present: return (to the finally clause); else the retry loop.
AfterQueryLock(h, present) ==
    [h EXCEPT !.pc = IF present THEN "finally" ELSE "attempt", !.attempt = 0, !.sends = 0]

HdQuery(t) == get_sparql_query(hd[t].titles, AttributeBatches[hd[t].g], hd[t].is_first_batch)

\* if not REDIS_CLIENT.set(query_lock_key, "locked", ex=60, nx=True): return
HdQueryLock(t) ==
    /\ hd[t].pc = "qlock"
    /\ LET key == get_query_lock_key(HdQuery(t)) IN
        /\ locks' = RedisSetNX(locks, key, QUERY_LOCK_EXPIRE, <<"hd", t>>, now)
        /\ hd' = [hd EXCEPT ![t] = AfterQueryLock(hd[t], Present(locks, key))]
    /\ UNCHANGED <<now, counters, disc, sched, store, aux>>

\* Leaving the retry loop: is_first_batch = False, the next group or the
\* transaction.
NextGroup(h) ==
    [h EXCEPT !.is_first_batch = FALSE, !.attempt = 0, !.g = @ + 1,
              !.pc = IF h.g = Len(AttributeBatches) THEN "txn" ELSE "qlock"]

NextAttemptOneMore(h) ==
    IF h.attempt + 1 < max_retries + 1
    THEN [h EXCEPT !.attempt = @ + 1, !.pc = "attempt"]
    ELSE NextGroup(h)

\* The end of one round of `for attempt in range(max_retries)' that did not break.
NextAttempt(h) ==
    IF h.attempt + 1 < max_retries
    THEN [h EXCEPT !.attempt = @ + 1, !.pc = "attempt"]
    ELSE NextGroup(h)

\* sparql.query().convert() returns: the rows are processed; an exception
\* in the processing is logged and breaks the loop.
HdAttemptOk(t, rows) ==
    LET Context(h, P, A) == [t |-> h, places |-> P, attributes |-> A, raised |-> FALSE]
    IN
    /\ hd[t].pc = "attempt"
    /\ \E c \in ProcessRows({Context([hd[t] EXCEPT !.sends = @ + 1], places, attributes)},
                            rows, hd[t].is_first_batch, now) :
        /\ places' = c.places
        /\ attributes' = c.attributes
        /\ hd' = [hd EXCEPT ![t] = IF c.raised
                                   THEN NextGroup([c.t EXCEPT !.failed = @ \cup {c.t.g}])
                                   ELSE NextAttempt(c.t)]
    /\ UNCHANGED <<now, locks, counters, disc, sched, persons, assoc, aux>>

\* The endpoint answers 429: retry_after = base_delay * (2**attempt); time.sleep(retry_after)
HdAttemptRateLimit(t) ==
    /\ hd[t].pc = "attempt"
    /\ hd' = [hd EXCEPT ![t].sends = @ + 1,
                        ![t].pc = "backoff",
                        ![t].retry_after = base_delay * Pow2(hd[t].attempt),
                        ![t].wake = now + base_delay * Pow2(hd[t].attempt)]
    /\ UNCHANGED <<now, locks, counters, disc, sched, store, aux>>

\* The sleep is over: continue
HdWake(t) ==
    LET Max(a, b) == IF a < b THEN b ELSE a
    IN
    /\ hd[t].pc = "backoff"
    /\ now' = Max(now, hd[t].wake)
    /\ locks' = Expire(locks, Max(now, hd[t].wake))
    /\ hd' = [hd EXCEPT ![t] = NextAttempt([hd[t] EXCEPT !.wake = 0])]
    /\ UNCHANGED <<counters, disc, sched, store, aux>>

OnQueryBadFormedRetry(h) == NextAttempt([h EXCEPT !.malformed = @ \cup {h.g}])

\* except QueryBadFormed: log, break
OnQueryBadFormed(h) == NextGroup([h EXCEPT !.malformed = @ \cup {h.g}])

\* The endpoint rejects the query as malformed.
HdAttemptMalformed(t) ==
    /\ hd[t].pc = "attempt"
    /\ hd' = [hd EXCEPT ![t] = OnQueryBadFormed([hd[t] EXCEPT !.sends = @ + 1])]
    /\ UNCHANGED <<now, locks, counters, disc, sched, store, aux>>

\* Any other exception of the request: logged, break
HdAttemptError(t) ==
    /\ hd[t].pc = "attempt"
    /\ hd' = [hd EXCEPT ![t] = NextGroup([hd[t] EXCEPT !.sends = @ + 1,
                                                       !.failed = @ \cup {hd[t].g}])]
    /\ UNCHANGED <<now, locks, counters, disc, sched, store, aux>>

\* with transaction.atomic(): ... ; an exception inside rolls everything back
HdTransaction(t) ==
    \* human_data["wikipedia_url"] of a human that no first-group response
    \* described raises KeyError.
    LET TransactionRaises(h) ==
            \/ \E i \in 1..Len(h.humans_to_create_dict) : ~h.humans_to_create_dict[i].v.has_core
            \/ \E i \in 1..Len(h.humans_to_update_dict) : ~h.humans_to_update_dict[i].v.has_core
    IN
    /\ hd[t].pc = "txn"
    /\ IF TransactionRaises(hd[t])
       THEN /\ hd' = [hd EXCEPT ![t].pc = "finally", ![t].txn = "raised"]
            /\ UNCHANGED store
       ELSE LET r == TransactionResult(hd[t], places, attributes, persons, assoc, now) IN
            /\ places' = r.places
            /\ attributes' = r.attributes
            /\ persons' = r.persons
            /\ assoc' = r.assoc
            /\ hd' = [hd EXCEPT ![t].pc = "finally", ![t].txn = "committed"]
    /\ UNCHANGED <<now, locks, counters, disc, sched, aux>>

\* The database refuses the transaction (connection lost, deadlock): caught, logged
HdTransactionFails(t) ==
    /\ hd[t].pc = "txn"
    /\ hd' = [hd EXCEPT ![t].pc = "finally", ![t].txn = "failed"]
    /\ UNCHANGED <<now, locks, counters, disc, sched, store, aux>>

\* A variant that leaves the lock to its TTL.
HdFinallyKeepsLock(t) ==
    /\ hd[t].pc = "finally"
    /\ counters' = [x \in DOMAIN counters \cup {hd[t].task_id} |->
                        IF x = hd[t].task_id
                        THEN (IF x \in DOMAIN counters THEN counters[x] ELSE 0) - 1
                        ELSE counters[x]]
    /\ hd' = [hd EXCEPT ![t].pc = "done"]
    /\ UNCHANGED <<now, locks, disc, sched, store, aux>>

\* finally: REDIS_CLIENT.delete(lock_key); REDIS_CLIENT.decr(f"wiki_batches:{task_id}")
HdFinally(t) ==
    /\ hd[t].pc = "finally"
    /\ locks' = RedisDelete(locks, HdKey(t))
    /\ counters' = [x \in DOMAIN counters \cup {hd[t].task_id} |->
                        IF x = hd[t].task_id
                        THEN (IF x \in DOMAIN counters THEN counters[x] ELSE 0) - 1
                        ELSE counters[x]]
    /\ hd' = [hd EXCEPT ![t].pc = "done"]
    /\ UNCHANGED <<now, disc, sched, store, aux>>

(***************************************************************************)
(* The SPARQL endpoint: what Wikidata answers for the articles it knows as *)
(* humans (the bindings of results["results"]["bindings"]).                *)
(***************************************************************************)
Wikidata ==
    [n \in {1, 2} |->
        IF n = 1
        THEN [item |-> <<"e", "/", "Q", "1">>, itemLabel |-> <<"A", "d", "a">>, article |-> <<"w", "/", "P", "1", "_", "%", "2", "8", "x", "%", "2", "9">>,
              dobValues |-> <<"1", "8", "1", "5", "-", "1", "2", "-", "1", "0", "T", "0">>, dobStatements |-> None,
              dodValues |-> <<"1", "8", "5", "2", "-", "1", "1", "-", "2", "7", "T", "0">>, dodStatements |-> None,
              birthPlaceID |-> <<"Q", "1", "0">>, birthPlaceLabel |-> <<"R", "o", "m", "e">>,
              birthPlaceCoordinates |-> <<"P", "o", "i", "n", "t", "(", "1", "2", ".", "5", " ", "4", "1", ".", "9", ")">>,
              deathPlaceID |-> None, deathPlaceLabel |-> None, deathPlaceCoordinates |-> None,
              attrs |-> [f \in {"gender", "handedness"} |->
                            IF f = "gender" THEN <<"Q", "2", "0", "|", "|", "f", "e", "m", "a", "l", "e">> ELSE <<"Q", "3", "0", "|", "|", "l", "e", "f", "t">>]]
        ELSE [item |-> <<"e", "/", "Q", "2">>, itemLabel |-> <<"B", "o", "b">>, article |-> <<"w", "/", "P", "2", "_", "%", "2", "8", "x", "%", "2", "9">>,
              dobValues |-> <<"-", "0", "0", "4", "4", "-", "0", "3", "-", "1", "5", "T", "0">>, dobStatements |-> None,
              dodValues |-> None, dodStatements |-> None,
              birthPlaceID |-> <<"Q", "1", "1">>, birthPlaceLabel |-> <<"O", "s", "l", "o">>,
              birthPlaceCoordinates |-> <<"h", "t", "t", "p", ":", "/", "/", "x">>,
              deathPlaceID |-> None, deathPlaceLabel |-> None, deathPlaceCoordinates |-> None,
              attrs |-> [f \in {"gender"} |-> <<"Q", "2", "1", "|", "|", "m", "a", "l", "e">>]]]

RECURSIVE EndpointRows(_, _, _)
EndpointRows(titles, attribute_batch, is_first_batch) ==
    \* One binding: the core variables only in the first group's query, and the
    \* optional variables of the group.
    LET EndpointRow(n, fields, first) ==
            LET w == Wikidata[n]
                core(x) == IF first THEN x ELSE None
            IN [item |-> w.item, itemLabel |-> w.itemLabel, article |-> core(w.article),
                dobValues |-> core(w.dobValues), dobStatements |-> core(w.dobStatements),
                dodValues |-> core(w.dodValues), dodStatements |-> core(w.dodStatements),
                birthPlaceID |-> core(w.birthPlaceID), birthPlaceLabel |-> core(w.birthPlaceLabel),
                birthPlaceCoordinates |-> core(w.birthPlaceCoordinates),
                deathPlaceID |-> core(w.deathPlaceID), deathPlaceLabel |-> core(w.deathPlaceLabel),
                deathPlaceCoordinates |-> core(w.deathPlaceCoordinates),
                attrs |-> [f \in DOMAIN w.attrs \cap Range(fields) |-> w.attrs[f]]]
    IN
    IF titles = <<>>
    THEN <<>>
    ELSE (IF Head(titles) \in DOMAIN Wikidata
          THEN <<EndpointRow(Head(titles), attribute_batch, is_first_batch)>>
          ELSE <<>>)
         \o EndpointRows(Tail(titles), attribute_batch, is_first_batch)

\* The answer to the query a task is about to send.
HdResponse(t) == EndpointRows(hd[t].titles, AttributeBatches[hd[t].g], hd[t].is_first_batch)

(***************************************************************************)
(* The Wikipedia page-information pages: what a GET of                     *)
(* index.php?title=<title>&action=info shows.                              *)
(***************************************************************************)
\* A page that is served: the redirect row's href (None without the row),
\* and the cells that fetch_wikipedia_metadata reads. A counter is the text
\* of the row's value cell, None without the row.
InfoPage(redirect, description, good, featured, length, views, created, edits, recent) ==
    [status |-> 200, redirect |-> redirect, description |-> description,
     good_article |-> good, featured_article |-> featured,
     page_length |-> length, page_views_30_days |-> views, created_date |-> created,
     edit_count |-> edits, recent_edits_30_days |-> recent]

\* An answer whose status is not 200.
NotServed == [InfoPage(None, <<>>, FALSE, FALSE, None, None, None, None, None)
                EXCEPT !.status = 404]

\* P is an article; F redirects to G; A redirects to B, which redirects to
\* C; D and E redirect to each other; the empty title shows the main page;
\* every other title is not served.
WikipediaSite(title) ==
    LET RedirectPage(href) ==
            InfoPage(href, <<>>, FALSE, FALSE, <<"6", "0">>, None, <<2010, 1, 1>>, <<"1">>, <<"0">>)
    IN
    CASE title = <<"P">> ->
            InfoPage(None, <<"p", "o", "e", "t">>, FALSE, FALSE,
                     <<"1", ",", "0", "0", "0">>, <<"5", "0">>, <<2001, 1, 15>>, <<"7", "0">>, <<"2">>)
      [] title = <<"F">> -> RedirectPage(<<"/", "w", "i", "k", "i", "/", "G">>)
      [] title = <<"G">> ->
            InfoPage(None, <<"n", "u", "n">>, TRUE, FALSE,
                     <<"2", ",", "0", "0", "0", " ", "b", "y", "t", "e", "s">>, <<"9", "0">>, <<2002, 2, 2>>, <<"8", "0">>, <<"3">>)
      [] title = <<"A">> -> RedirectPage(<<"/", "w", "i", "k", "i", "/", "B">>)
      [] title = <<"B">> -> RedirectPage(<<"/", "w", "i", "k", "i", "/", "C">>)
      [] title = <<"C">> ->
            InfoPage(None, <<"s", "p", "y">>, FALSE, TRUE,
                     <<"3", "0", "0", "0">>, <<"-">>, <<2003, 3, 3>>, <<"9", "0">>, <<"4">>)
      [] title = <<"D">> -> RedirectPage(<<"/", "w", "i", "k", "i", "/", "E">>)
      [] title = <<"E">> -> RedirectPage(<<"/", "w", "i", "k", "i", "/", "D">>)
      \* the article of the first title of the day pages
      [] title = ArticleName[1] ->
            InfoPage(None, <<"m", "a", "t", "h">>, FALSE, FALSE,
                     <<"4", "0", "0">>, <<"7">>, <<2004, 4, 4>>, <<"6", "0">>, <<"1">>)
      [] title = <<>> ->
            InfoPage(None, <<>>, FALSE, FALSE,
                     <<"5", "0", "0">>, <<"9", ",", "0", "0", "0">>, <<2002, 1, 26>>, <<"9", "0", "0">>, <<"5">>)
      [] OTHER -> NotServed

(***************************************************************************)
(* schedule_wikipedia_data_collection, reprocess_missing_created_dates,    *)
(* process_wikipedia_batch and fetch_wikipedia_metadata.                   *)
(***************************************************************************)
\* A variant that converts the cell as it is.
CounterValuePlain(cell) ==
    IF cell = None \/ ~IsDigits(cell) THEN NoNumber ELSE {DigitsValue(cell)}

\* int(re.sub(r"\D", "", text)): the key stays unset without the row, and when
\* no digit is left (ValueError).
CounterValue(cell) ==
    LET IsDigit(c) == c \in Range(DigitChars)
        digits == IF cell = None THEN <<>> ELSE SelectSeq(cell, IsDigit)
    IN IF digits = <<>> THEN NoNumber ELSE {DigitsValue(digits)}

\* The metadata dict of a served page without a redirect row; metadata.get
\* of an unset key is None.
ScrapedMetadata(response) ==
    [description |-> response.description,
     good_article |-> response.good_article,
     featured_article |-> response.featured_article,
     page_length |-> CounterValue(response.page_length),
     page_views_30_days |-> CounterValue(response.page_views_30_days),
     created_date |-> response.created_date,
     edit_count |-> CounterValue(response.edit_count),
     recent_edits_30_days |-> CounterValue(response.recent_edits_30_days)]

WbIds == {1, 2}

FOUR_WEEKS == 2419200

\* How deep fetch_wikipedia_metadata may call itself before the interpreter
\* raises RecursionError.
RecursionLimit == 3

IdleWb ==
    [pc |-> "idle", sweep |-> "", human_ids |-> {}, humans |-> {},
     human |-> PersonRow(<<>>, <<>>,
                         [wikipedia_url |-> <<>>, birth_date |-> None, is_birth_bc |-> FALSE,
                          death_date |-> None, is_death_bc |-> FALSE], None, None, 0),
     page_title |-> <<>>, depth |-> 0, requested |-> <<>>,
     scraped_page_title |-> <<>>, has_metadata |-> FALSE,
     metadata |-> ScrapedMetadata(NotServed)]

\* A variant that takes every person with a Wikipedia reference.
ScheduleWikipediaAll(b) ==
    LET NeedingWikipediaUpdate(H, tnow) ==
            {r \in H : r.wikipedia_url # None /\ r.wikipedia_url # <<>>}
    IN
    /\ wiki[b].pc = "idle"
    /\ NeedingWikipediaUpdate(persons, now) # {}
    /\ Cardinality(NeedingWikipediaUpdate(persons, now)) <= BATCH_SIZE
    /\ wiki' = [wiki EXCEPT ![b] =
                  [IdleWb EXCEPT !.pc = "queued", !.sweep = "schedule_wikipedia_data_collection",
                                 !.human_ids = {r.wikidata_id : r \in NeedingWikipediaUpdate(persons, now)}]]
    /\ UNCHANGED <<now, locks, counters, disc, sched, hd, store, probe>>

\* The periodic sweep: one process_wikipedia_batch of the ids that need an
\* update (the persons here are fewer than one batch of 50).
ScheduleWikipedia(b) ==
    \* humans_to_update of schedule_wikipedia_data_collection
    LET NeedingWikipediaUpdate(H, tnow) ==
            {r \in H : /\ r.wikipedia_url # None
                       /\ r.wikipedia_url # <<>>
                       /\ \/ r.last_wikipedia_update = NoNumber
                          \/ \E at \in r.last_wikipedia_update : at < tnow - FOUR_WEEKS}
    IN
    /\ wiki[b].pc = "idle"
    /\ NeedingWikipediaUpdate(persons, now) # {}
    /\ Cardinality(NeedingWikipediaUpdate(persons, now)) <= BATCH_SIZE
    /\ wiki' = [wiki EXCEPT ![b] =
                  [IdleWb EXCEPT !.pc = "queued", !.sweep = "schedule_wikipedia_data_collection",
                                 !.human_ids = {r.wikidata_id : r \in NeedingWikipediaUpdate(persons, now)}]]
    /\ UNCHANGED <<now, locks, counters, disc, sched, hd, store, probe>>

\* The sweep for the records without a creation date.
ReprocessMissingCreatedDates(b) ==
    \* The filter of reprocess_missing_created_dates
    LET MissingCreatedDate(H) ==
            {r \in H : r.article_created_date = None /\ r.wikipedia_url # None}
    IN
    /\ wiki[b].pc = "idle"
    /\ MissingCreatedDate(persons) # {}
    /\ Cardinality(MissingCreatedDate(persons)) <= BATCH_SIZE
    /\ wiki' = [wiki EXCEPT ![b] =
                  [IdleWb EXCEPT !.pc = "queued", !.sweep = "reprocess_missing_created_dates",
                                 !.human_ids = {r.wikidata_id : r \in MissingCreatedDate(persons)}]]
    /\ UNCHANGED <<now, locks, counters, disc, sched, hd, store, probe>>

\* humans = NotableHuman.objects.filter(wikidata_id__in=human_ids), read
\* when the loop starts.
WbStart(b) ==
    /\ wiki[b].pc = "queued"
    /\ wiki' = [wiki EXCEPT ![b].pc = "loop",
                            ![b].humans = {r \in persons : r.wikidata_id \in wiki[b].human_ids}]
    /\ UNCHANGED <<now, locks, counters, disc, sched, hd, store, probe>>

\* for human in humans: page_title = human.wikipedia_url.split("/")[-1];
\* after the last human the task sleeps.
WbNext(b) ==
    /\ wiki[b].pc = "loop"
    /\ IF wiki[b].humans = {}
       THEN wiki' = [wiki EXCEPT ![b].pc = "sleep"]
       ELSE \E human \in wiki[b].humans :
              wiki' = [wiki EXCEPT ![b].pc = "fetch",
                                   ![b].humans = @ \ {human},
                                   ![b].human = human,
                                   ![b].page_title = LastOf(SplitStr(human.wikipedia_url, <<"/">>)),
                                   ![b].depth = 0,
                                   ![b].requested = <<>>,
                                   ![b].scraped_page_title = <<>>,
                                   ![b].has_metadata = FALSE,
                                   ![b].metadata = ScrapedMetadata(NotServed)]
    /\ UNCHANGED <<now, locks, counters, disc, sched, hd, store, probe>>

\* A variant that leaves the reference as it was.
WithMetadataKeepUrl(human, scraped_page_title, metadata, tnow) ==
    [human EXCEPT !.description = metadata.description,
                  !.article_length = metadata.page_length,
                  !.article_created_date = metadata.created_date,
                  !.last_wikipedia_update = {tnow}]

\* The columns process_wikipedia_batch sets from the metadata.
WithMetadata(human, scraped_page_title, metadata, tnow) ==
    [human EXCEPT !.wikipedia_url = scraped_page_title,
                  !.description = metadata.description,
                  !.article_length = metadata.page_length,
                  !.article_recent_views = metadata.page_views_30_days,
                  !.article_total_edits = metadata.edit_count,
                  !.article_recent_edits = metadata.recent_edits_30_days,
                  !.article_quality = IF metadata.good_article THEN GOOD_ARTICLE
                                      ELSE IF metadata.featured_article THEN FEATURED_ARTICLE
                                      ELSE @,
                  !.article_created_date = metadata.created_date,
                  !.last_wikipedia_update = {tnow}]

\* One request of fetch_wikipedia_metadata and what follows its answer: a
\* redirect row makes the function call itself with the target; a served
\* page returns and is saved; another status returns without metadata.
WbFetch(b, response) ==
    \* human.save(): every column of the row with this primary key
    LET SaveHuman(H, human) == {r \in H : r.wikidata_id # human.wikidata_id} \cup {human}
    IN
    LET page_title == SplitStr(wiki[b].page_title, <<"#">>)[1] IN
    /\ wiki[b].pc = "fetch"
    /\ wiki[b].depth < RecursionLimit
    /\ IF response.status = 200 /\ response.redirect # None
       THEN /\ wiki' = [wiki EXCEPT ![b].page_title = LastOf(SplitStr(response.redirect, <<"/">>)),
                                    ![b].depth = @ + 1,
                                    ![b].requested = Append(@, page_title)]
            /\ UNCHANGED persons
       ELSE /\ wiki' = [wiki EXCEPT ![b].pc = "loop",
                                    ![b].requested = Append(@, page_title),
                                    ![b].scraped_page_title = page_title,
                                    ![b].has_metadata = (response.status = 200),
                                    ![b].metadata = ScrapedMetadata(response)]
            /\ persons' = IF response.status = 200
                          THEN SaveHuman(persons, WithMetadata(wiki[b].human, page_title,
                                                               ScrapedMetadata(response), now))
                          ELSE persons
    /\ UNCHANGED <<now, locks, counters, disc, sched, hd, places, attributes, assoc, probe>>

\* requests.get raises (a timeout, no connection): except Exception logs it.
WbFetchError(b) ==
    /\ wiki[b].pc = "fetch"
    /\ wiki[b].depth < RecursionLimit
    /\ wiki' = [wiki EXCEPT ![b].pc = "loop",
                            ![b].requested = Append(@, SplitStr(wiki[b].page_title, <<"#">>)[1])]
    /\ UNCHANGED <<now, locks, counters, disc, sched, hd, store, probe>>

\* The redirects went on until the interpreter refused another call.
WbRecursionError(b) ==
    /\ wiki[b].pc = "fetch"
    /\ wiki[b].depth = RecursionLimit
    /\ wiki' = [wiki EXCEPT ![b].pc = "loop"]
    /\ UNCHANGED <<now, locks, counters, disc, sched, hd, store, probe>>

\* time.sleep(2) after the loop
WbSleep(b) ==
    /\ wiki[b].pc = "sleep"
    /\ now + 2 <= MaxTime
    /\ now' = now + 2
    /\ locks' = Expire(locks, now + 2)
    /\ wiki' = [wiki EXCEPT ![b].pc = "done"]
    /\ UNCHANGED <<counters, disc, sched, hd, store, probe>>

(***************************************************************************)
(* Calls of the pure functions: parse_date and is_probably_human, each     *)
(* applied to one input.                                                   *)
(***************************************************************************)
IdleProbe ==
    [pc |-> "idle", date_values |-> None, date_statements |-> None, title |-> <<>>,
     date |-> [kind |-> "return", date |-> None, is_bc |-> FALSE], human |-> FALSE]

\* The time values of the endpoint: [-]YYYY-MM-DD[T...]
DateString(is_bc, year, month, day, time_part) ==
    \* Zero-padded decimal digits of a natural number.
    LET Padded(n, width) ==
            [i \in 1..(width - Len(DigitsOf(n))) |-> "0"] \o DigitsOf(n)
    IN
    (IF is_bc THEN <<"-">> ELSE <<>>) \o Padded(year, 4) \o <<"-">> \o Padded(month, 2)
        \o <<"-">> \o Padded(day, 2) \o time_part

Years == {0, 1, 44, 1879, 1900, 2000}

MonthNumbers == {1, 2, 12, 13}

DayNumbers == {1, 14, 29, 30, 31, 32}

TimeParts == {<<>>, <<"T", "0", "0", ":", "0", "0", ":", "0", "0", "Z">>}

DateStrings ==
    {DateString(is_bc, year, month, day, time_part) :
        is_bc \in BOOLEAN, year \in Years, month \in MonthNumbers, day \in DayNumbers,
        time_part \in TimeParts}

\* Values no candidate of which is a date: URLs, other text, empty parts.
BadDateValues ==
    {
        <<"|">>,
        <<"x", "|">>,
        <<"|", "x">>,
        <<"h", "t", "t", "p", ":", "/", "/", "x">>,
        <<"h", "t", "t", "p", ":", "/", "/", "x", "|", "h", "t", "t", "p", ":", "/", "/", "y">>,
        <<"h", "t", "t", "p", ":", "/", "/", "x", "|">>,
        <<"a", "b", "c">>,
        <<"1", "8", "7", "9", "-", "0", "3">>,
        <<"1", "8", "7", "9", "-", "0", "3", "-", "1", "4", "-", "0", "1">>,
        <<"T">>,
        <<"-">>,
        <<"T", "0", "0", ":", "0", "0">>,
        <<"1", "8", "x", "9", "-", "0", "3", "-", "1", "4">>,
        <<"1", "8", "7", "9", "-", "3", "x", "-", "1", "4">>,
        <<"-", "-", "1", "8", "7", "9", "-", "0", "3", "-", "1", "4">>,
        <<"0", "0", "0", "0", "-", "0", "0", "-", "0", "0">>,
        <<"x", "|", "y">>,
        <<"|", "|">>,
        <<"2", "0", "2", "1", "-", "0", "2", "-", "3", "0">>,
        <<"1", "8", "7", "9", "/", "0", "3", "/", "1", "4">>
    }

\* Values with more than one part, or with surrounding blanks.
MixedDateValues ==
    {
        <<"|", "1", "8", "7", "9", "-", "0", "3", "-", "1", "4">>,
        <<"1", "8", "7", "9", "-", "0", "3", "-", "1", "4", "|">>,
        <<"1", "8", "7", "9", "-", "0", "3", "-", "1", "4", "|", "1", "8", "8", "0", "-", "0", "1", "-", "0", "1">>,
        <<"h", "t", "t", "p", ":", "/", "/", "x", "|", "1", "8", "7", "9", "-", "0", "3", "-", "1", "4">>,
        <<" ", "1", "8", "7", "9", "-", "0", "3", "-", "1", "4", " ">>,
        <<"a", "b", "c", "|", "1", "8", "7", "9", "-", "0", "3", "-", "1", "4">>,
        <<"-", "0", "0", "4", "4", "-", "0", "3", "-", "1", "5", "T", "0", "0", ":", "0", "0", ":", "0", "0", "Z", "|", "-", "0", "0", "4", "4", "-", "0", "3", "-", "1", "5">>,
        <<"1", "8", "7", "9", "-", "0", "3", "-", "1", "4", "|", "1", "8", "7", "9", "-", "0", "3", "-", "1", "4">>
    }

\* The arguments (date_values, date_statements) of the calls of parse_date.
DateInputs ==
    LET one == DateStrings \cup BadDateValues \cup MixedDateValues IN
    {<<v, None>> : v \in one} \cup {<<None, v>> : v \in one}
        \cup {<<v, <<>>>> : v \in BadDateValues} \cup {<<None, None>>, <<<<>>, <<>>>>}
        \cup {<<v, w>> : v \in BadDateValues, w \in MixedDateValues}

\* Link titles as the MediaWiki API returns them (no surrounding blanks).
TitleInputs ==
    {
        <<"A", "d", "a">>,
        <<"A", "d", "a", " ", "L", "o", "v", "e", "l", "a", "c", "e">>,
        <<"L", "i", "s", "t", " ", "o", "f", " ", "x">>,
        <<"l", "i", "s", "t", " ", "o", "f", " ", "x">>,
        <<"A", " ", "L", "I", "S", "T", " ", "O", "F", " ", "X">>,
        <<"C", "a", "t", "e", "g", "o", "r", "y", ":", "A">>,
        <<"c", "a", "t", "e", "g", "o", "r", "y", ":", "a">>,
        <<"x", "T", "a", "l", "k", ":", "y">>,
        <<"T", "e", "m", "p", "l", "a", "t", "e", " ", "t", "a", "l", "k", ":", "a">>,
        <<"T", "e", "m", "p", "l", "a", "t", "e", ":", "a">>,
        <<"F", "i", "l", "e", ":", "a">>,
        <<"F", "I", "L", "E", ":", "a">>,
        <<"P", "o", "r", "t", "a", "l", ":", "a">>,
        <<"W", "i", "k", "i", "p", "e", "d", "i", "a", ":", "a">>,
        <<"w", "i", "k", "i", "p", "e", "d", "i", "a", ":", "A">>,
        <<"1", "9", "9", "0">>,
        <<"1", " ", "x">>,
        <<"x", " ", "1">>,
        <<"5", "0", " ", "C", "e", "n", "t">>,
        <<"x", " ", "(", "1", "9", "9", "0", ")">>,
        <<"2", "P", "a", "c", " ", "(", "x", ")">>,
        <<"1", " ", "F", "i", "l", "e", ":", "a", ")">>,
        <<"L", "i", "s", "t", " ", "o", "f", " ", "x", " ", "(", "1", ")">>,
        <<>>,
        <<")">>,
        <<"T", "a", "l", "k">>,
        <<"L", "i", "s", "t", "o", "f">>,
        <<"A", ":", "b">>,
        <<"P", "o", "r", "t", "a", "l">>,
        <<"x", "9", ")">>,
        <<"9">>,
        <<"T", "a", "l", "k", ":", " ", "1", ")">>
    }

InitPure ==
    /\ now = 0
    /\ locks = <<>>
    /\ counters = <<>>
    /\ disc = [d \in DiscIds |-> IdleDisc]
    /\ sched = [s \in SchedIds |-> IdleSched]
    /\ hd = [t \in HdIds |-> IdleHd]
    /\ places = {}
    /\ attributes = {}
    /\ persons = {}
    /\ assoc = <<>>
    /\ wiki = [b \in WbIds |-> IdleWb]
    /\ \/ \E args \in DateInputs :
             probe = [IdleProbe EXCEPT !.pc = "parse_date", !.date_values = args[1],
                                       !.date_statements = args[2]]
       \/ \E title \in TitleInputs :
             probe = [IdleProbe EXCEPT !.pc = "is_probably_human", !.title = title]

\* parse_date(date_values, date_statements) returns or raises
CallParseDate ==
    /\ probe.pc = "parse_date"
    /\ \E outcome \in parse_date(probe.date_values, probe.date_statements) :
          probe' = [probe EXCEPT !.pc = "parsed", !.date = outcome]
    /\ UNCHANGED <<now, locks, counters, disc, sched, hd, store, wiki>>

\* is_probably_human(title) returns
CallIsProbablyHuman ==
    /\ probe.pc = "is_probably_human"
    /\ probe' = [probe EXCEPT !.pc = "filtered", !.human = is_probably_human(probe.title)]
    /\ UNCHANGED <<now, locks, counters, disc, sched, hd, store, wiki>>

NextPure ==
    \/ CallParseDate
    \/ CallIsProbablyHuman

SpecPure == InitPure /\ [][NextPure]_vars


(***************************************************************************)
(* The two Wikipedia sweeps over a store of two persons: each has an       *)
(* article, a redirect, a redirect chain, a redirect cycle, a page that    *)
(* is not served or no Wikipedia reference at all, and each was never      *)
(* scraped, scraped four weeks ago or longer, or three minutes ago.         *)
(***************************************************************************)
InitWiki ==
    LET WikiPerson(n, wikipedia_url, scraped) ==
            [PersonRow(<<"Q">> \o DigitsOf(n), <<"H">> \o DigitsOf(n),
                       [wikipedia_url |-> wikipedia_url, birth_date |-> None, is_birth_bc |-> FALSE,
                        death_date |-> None, is_death_bc |-> FALSE], None, None, 0 - 10)
                EXCEPT !.last_wikipedia_update = scraped,
                       !.article_created_date = IF scraped = NoNumber THEN None ELSE <<2001, 1, 15>>,
                       !.article_recent_views = IF scraped = NoNumber THEN NoNumber ELSE {50},
                       !.article_quality = IF scraped = NoNumber THEN UNRATED_ARTICLE ELSE GOOD_ARTICLE]
    IN
    /\ now = 0
    /\ locks = <<>>
    /\ counters = <<>>
    /\ disc = [d \in DiscIds |-> IdleDisc]
    /\ sched = [s \in SchedIds |-> IdleSched]
    /\ hd = [t \in HdIds |-> IdleHd]
    /\ places = {}
    /\ attributes = {}
    /\ assoc = <<>>
    /\ wiki = [b \in WbIds |-> IdleWb]
    /\ probe = IdleProbe
    /\ \E url1 \in {<<"w", "/", "P">>, <<"w", "/", "F", "#", "s">>, <<"w", "/", "A">>},
          url2 \in {<<"w", "/", "D">>, <<"w", "/", "X">>, <<"w", "/", "C">>, <<>>} :
       \E scraped \in {NoNumber, {0 - FOUR_WEEKS - 1}, {0 - FOUR_WEEKS}, {0 - 180}} :
          persons = {WikiPerson(1, url1, NoNumber), WikiPerson(2, url2, scraped)}

NextWiki ==
    \/ \E b \in WbIds : ScheduleWikipedia(b)
    \/ \E b \in WbIds : ReprocessMissingCreatedDates(b)
    \/ \E b \in WbIds : WbStart(b)
    \/ \E b \in WbIds : WbNext(b)
    \* a request is answered with the page or with an error status
    \/ \E b \in WbIds :
          \E response \in {WikipediaSite(SplitStr(wiki[b].page_title, <<"#">>)[1]), NotServed} :
             WbFetch(b, response)
    \/ \E b \in WbIds : WbFetchError(b)
    \/ \E b \in WbIds : WbRecursionError(b)
    \/ \E b \in WbIds : WbSleep(b)

SpecWiki == InitWiki /\ [][NextWiki]_vars

(***************************************************************************)
(* Rows created through the model layer, without the pipeline:             *)
(* Model.objects.create(...) builds the instance and saves it.             *)
(***************************************************************************)
\* NotableHumanAttribute.objects.create(wikidata_id=, label=, category=): the
\* INSERT is refused for a primary key that exists; nothing calls full_clean().
AttributeCreate(id, label, category) ==
    /\ ~HasPk(attributes, id)
    /\ attributes' = attributes \cup {AttributeRow(id, label, category, now)}
    /\ UNCHANGED <<now, locks, counters, disc, sched, hd, places, persons, assoc, aux>>

\* Place.objects.create(wikidata_id=, name=): the coordinates default to
\* NULL; the INSERT is refused for a primary key or a name that exists.
PlaceCreate(id, name) ==
    /\ ~HasPk(places, id)
    /\ \A r \in places : r.name # name
    /\ places' = places \cup {PlaceRow(id, name, NoNumber, NoNumber, now)}
    /\ UNCHANGED <<now, locks, counters, disc, sched, hd, attributes, persons, assoc, aux>>

InitModels ==
    /\ now = 0
    /\ locks = <<>>
    /\ counters = <<>>
    /\ disc = [d \in DiscIds |-> IdleDisc]
    /\ sched = [s \in SchedIds |-> IdleSched]
    /\ hd = [t \in HdIds |-> IdleHd]
    /\ places = {}
    /\ attributes = {}
    /\ persons = {}
    /\ assoc = <<>>
    /\ wiki = [b \in WbIds |-> IdleWb]
    /\ probe = IdleProbe

NextModels ==
    \/ \E id \in {<<"Q", "1", "2", "3">>, <<"Q", "1", "2", "4">>},
          label \in {<<"M", "a", "t", "h">>},
          category \in {"occupation", "gender", "NotAValidChoice"} :
             AttributeCreate(id, label, category)
    \/ \E id \in {<<"Q", "1", "2", "3">>, <<"Q", "5">>},
          name \in {<<"P", "i", "t", "t">>, <<"R", "o", "m", "e">>} :
             PlaceCreate(id, name)

SpecModels == InitModels /\ [][NextModels]_vars

(***************************************************************************)
(* One enrichment task and its retry loop, against an endpoint that        *)
(* answers until it starts to throttle the task, and that may reject the   *)
(* query or fail at any time.                                              *)
(***************************************************************************)
\* A scheduler run that has dispatched its only batch.
DoneSched(titles) ==
    [IdleSched EXCEPT !.pc = "done", !.month = "January", !.day = 1, !.titles = titles,
                      !.batches = Chunks(titles, BATCH_SIZE), !.i = 2]

QueuedHd(titles, src) == [IdleHd EXCEPT !.pc = "queued", !.titles = titles, !.src = src]

InitRetry ==
    /\ now = 0
    /\ locks = RedisSetNX(<<>>, BatchLockKey(<<1, 2>>), LOCK_EXPIRE_TIME, <<"sched", 1>>, 0)
    /\ counters = [x \in {0} |-> 1]
    /\ disc = [d \in DiscIds |-> IdleDisc]
    /\ sched = [s \in SchedIds |-> IF s = 1 THEN DoneSched(<<1, 2>>) ELSE IdleSched]
    /\ hd = [t \in HdIds |-> IF t = 1 THEN QueuedHd(<<1, 2>>, 1) ELSE IdleHd]
    /\ places = {}
    /\ attributes = {}
    /\ persons = {}
    /\ assoc = <<>>
    /\ wiki = [b \in WbIds |-> IdleWb]
    /\ probe = IdleProbe

NextRetry ==
    \/ \E t \in HdIds : HdStart(t)
    \/ \E t \in HdIds : HdLoad(t)
    \/ \E t \in HdIds : HdQueryLock(t)
    \/ \E t \in HdIds : hd[t].retry_after = 0 /\ HdAttemptOk(t, HdResponse(t))
    \/ \E t \in HdIds : HdAttemptRateLimit(t)
    \/ \E t \in HdIds : HdWake(t)
    \/ \E t \in HdIds : HdAttemptMalformed(t)
    \/ \E t \in HdIds : HdAttemptError(t)
    \/ \E t \in HdIds : HdTransaction(t)
    \/ \E t \in HdIds : HdFinally(t)

SpecRetry == InitRetry /\ [][NextRetry]_vars

(***************************************************************************)
(* Two enrichment tasks of different batches that share an article, over   *)
(* a store that is empty or was filled by an earlier run.                  *)
(* The endpoint may fail on the first group's query, the database may      *)
(* refuse a transaction, and the clock advances once, while a task is      *)
(* about to open its transaction.                                          *)
(***************************************************************************)
\* The seconds, relative to the start, at which the earlier run wrote.
InitStore ==
    LET
        EarlierRuns == {0 - 300, 0 - 90, 0 - 30}
        \* What Wikidata said at the earlier run: by now a label and a name changed.
        EarlierPlaces(at) ==
            {PlaceRow(<<"Q", "1", "0">>, IF at < 0 - TWO_MINUTES THEN <<"R", "o", "m", "a">> ELSE <<"R", "o", "m", "e">>,
                      {41900000}, {12500000}, at)}
        EarlierAttributes(at) ==
            {AttributeRow(<<"Q", "2", "0">>, IF at < 0 - TWO_MINUTES THEN <<"w", "o", "m", "a", "n">> ELSE <<"f", "e", "m", "a", "l", "e">>, "gender", at),
             AttributeRow(<<"Q", "3", "0">>, <<"l", "e", "f", "t">>, "handedness", at)}
        EarlierPersons(at) ==
            {PersonRow(<<"Q", "1">>, <<"A", "d", "a">>,
                       [wikipedia_url |-> <<"P", "1", "_", "%", "2", "8", "x", "%", "2", "9">>,
                        birth_date |-> <<1815, 12, 10>>, is_birth_bc |-> FALSE,
                        death_date |-> <<1852, 11, 27>>, is_death_bc |-> FALSE],
                       <<"Q", "1", "0">>, None, at)}
        EarlierAssoc == [pair \in {<<<<"Q", "1">>, <<"Q", "2", "0">>>>} |-> 1]
    IN
    /\ now = 0
    /\ locks = RedisSetNX(RedisSetNX(<<>>, BatchLockKey(<<1>>), LOCK_EXPIRE_TIME, <<"sched", 1>>, 0),
                          BatchLockKey(<<2, 1>>), LOCK_EXPIRE_TIME, <<"sched", 2>>, 0)
    /\ counters = [x \in {0} |-> 1]
    /\ disc = [d \in DiscIds |-> IdleDisc]
    /\ sched = [s \in SchedIds |-> IF s = 1 THEN DoneSched(<<1>>) ELSE DoneSched(<<2, 1>>)]
    /\ hd = [t \in HdIds |->
                IF t = 1 THEN QueuedHd(<<1>>, 1)
                ELSE IF t = 2 THEN QueuedHd(<<2, 1>>, 2)
                ELSE IdleHd]
    /\ \/ /\ places = {}
          /\ attributes = {}
          /\ persons = {}
          /\ assoc = <<>>
       \/ \E at \in EarlierRuns :
            /\ places = EarlierPlaces(at)
            /\ attributes = EarlierAttributes(at)
            /\ persons = EarlierPersons(at)
            /\ assoc = EarlierAssoc
    /\ wiki = [b \in WbIds |-> IdleWb]
    /\ probe = IdleProbe

NextStore ==
    \/ \E t \in HdIds : HdStart(t)
    \/ \E t \in HdIds : HdLoad(t)
    \/ \E t \in HdIds : HdQueryLock(t)
    \/ \E t \in HdIds : HdAttemptOk(t, HdResponse(t))
    \/ \E t \in HdIds : hd[t].g = 1 /\ HdAttemptError(t)
    \/ \E t \in HdIds : HdTransaction(t)
    \/ \E t \in HdIds : HdTransactionFails(t)
    \/ \E t \in HdIds : HdFinally(t)
    \/ (\E t \in HdIds : hd[t].pc = "txn") /\ now < TickStep /\ Tick

SpecStore == InitStore /\ [][NextStore]_vars

(***************************************************************************)
(* Enrichment of the days' titles while the store holds, from an earlier   *)
(* run, a place that another Wikidata item names like the birth place of   *)
(* the second person (labels are not unique among Wikidata items).         *)
(***************************************************************************)
InitNames ==
    /\ now = 0
    /\ locks = RedisSetNX(<<>>, BatchLockKey(<<2, 1>>), LOCK_EXPIRE_TIME, <<"sched", 1>>, 0)
    /\ counters = [x \in {0} |-> 1]
    /\ disc = [d \in DiscIds |-> IdleDisc]
    /\ sched = [s \in SchedIds |-> IF s = 1 THEN DoneSched(<<2, 1>>) ELSE IdleSched]
    /\ hd = [t \in HdIds |-> IF t = 1 THEN QueuedHd(<<2, 1>>, 1) ELSE IdleHd]
    /\ \E at \in {0 - 300, 0 - 90, 0 - 30} :
          places = {PlaceRow(<<"Q", "1", "2">>, Wikidata[2].birthPlaceLabel, {59900000}, {10700000}, at)}
    /\ attributes = {}
    /\ persons = {}
    /\ assoc = <<>>
    /\ wiki = [b \in WbIds |-> IdleWb]
    /\ probe = IdleProbe

SpecNames == InitNames /\ [][NextStore]_vars

(***************************************************************************)
(* Enrichment of the first title shortly after an earlier run of the same  *)
(* title: the endpoint refused its first query, its later queries went out *)
(* half a minute ago, and it has ended.  A query lock is never deleted, so *)
(* the lock of one of its later groups is still there; the store is what a *)
(* run of five minutes ago left, with the label and the name of then.      *)
(***************************************************************************)
EarlierStore ==
    [places |-> {PlaceRow(<<"Q", "1", "0">>, <<"R", "o", "m", "a">>, {41900000}, {12500000}, 0 - 300)},
     attributes |-> {AttributeRow(<<"Q", "2", "0">>, <<"w", "o", "m", "a", "n">>, "gender", 0 - 300)}]

InitSkip ==
    /\ now = 0
    /\ \E g \in 2..Len(AttributeBatches) :
          locks = RedisSetNX(RedisSetNX(<<>>, BatchLockKey(<<1>>), LOCK_EXPIRE_TIME, <<"sched", 1>>, 0),
                             get_query_lock_key(get_sparql_query(<<1>>, AttributeBatches[g], FALSE)),
                             QUERY_LOCK_EXPIRE, <<"hd", 2>>, 0 - 30)
    /\ counters = [x \in {0 - 70, 0} |-> IF x = 0 THEN 1 ELSE 0]
    /\ disc = [d \in DiscIds |-> IdleDisc]
    /\ sched = [s \in SchedIds |-> IF s = 1 THEN DoneSched(<<1>>) ELSE IdleSched]
    /\ hd = [t \in HdIds |->
                IF t = 1 THEN QueuedHd(<<1>>, 1)
                ELSE IF t = 2
                THEN [IdleHd EXCEPT !.pc = "done", !.titles = <<1>>, !.task_id = 0 - 70,
                                    !.g = Len(AttributeBatches) + 1, !.is_first_batch = FALSE,
                                    !.failed = {1}, !.txn = "raised"]
                ELSE IdleHd]
    /\ places = EarlierStore.places
    /\ attributes = EarlierStore.attributes
    /\ persons = {}
    /\ assoc = <<>>
    /\ wiki = [b \in WbIds |-> IdleWb]
    /\ probe = IdleProbe

NextSkip ==
    \/ \E t \in HdIds : HdStart(t)
    \/ \E t \in HdIds : HdLoad(t)
    \/ \E t \in HdIds : HdQueryLock(t)
    \/ \E t \in HdIds : HdAttemptOk(t, HdResponse(t))
    \/ \E t \in HdIds : HdAttemptError(t)
    \/ \E t \in HdIds : HdFinally(t)

SpecSkip == InitSkip /\ [][NextSkip]_vars

(***************************************************************************)
(* Enrichment against an endpoint whose answer holds a malformed attribute *)
(* pair: the gender of the second human comes without "||" and a label.    *)
(***************************************************************************)
NextParse ==
    LET HdResponseMalformedPair(t) ==
            [i \in 1..Len(HdResponse(t)) |->
                LET row == HdResponse(t)[i] IN
                IF row.item = Wikidata[2].item /\ "gender" \in DOMAIN row.attrs
                THEN [row EXCEPT !.attrs = [f \in DOMAIN row.attrs |->
                                               IF f = "gender" THEN <<"Q", "2", "1">> ELSE row.attrs[f]]]
                ELSE row]
    IN
    \/ \E t \in HdIds : HdStart(t)
    \/ \E t \in HdIds : HdLoad(t)
    \/ \E t \in HdIds : HdQueryLock(t)
    \/ \E t \in HdIds : HdAttemptOk(t, HdResponseMalformedPair(t))
    \/ \E t \in HdIds : HdTransaction(t)
    \/ \E t \in HdIds : HdFinally(t)

SpecParse == InitStore /\ [][NextParse]_vars

(***************************************************************************)
(* The two writers of a person: an enrichment task of two titles and a     *)
(* refresh task, over a store that an earlier run filled.                  *)
(***************************************************************************)
InitWriters ==
    /\ now = 0
    /\ locks = RedisSetNX(<<>>, BatchLockKey(<<2, 1>>), LOCK_EXPIRE_TIME, <<"sched", 1>>, 0)
    /\ counters = [x \in {0} |-> 1]
    /\ disc = [d \in DiscIds |-> IdleDisc]
    /\ sched = [s \in SchedIds |-> IF s = 1 THEN DoneSched(<<2, 1>>) ELSE IdleSched]
    /\ hd = [t \in HdIds |-> IF t = 1 THEN QueuedHd(<<2, 1>>, 1) ELSE IdleHd]
    /\ \E at \in {0 - 300} :
          /\ places = {PlaceRow(<<"Q", "1", "0">>, <<"R", "o", "m", "e">>, {41900000}, {12500000}, at)}
          /\ attributes = {AttributeRow(<<"Q", "2", "0">>, <<"w", "o", "m", "a", "n">>, "gender", at),
                           AttributeRow(<<"Q", "3", "0">>, <<"l", "e", "f", "t">>, "handedness", at)}
          \* what Wikidata said then: the label was another, no place was known
          /\ persons = {PersonRow(<<"Q", "1">>, <<"A", "u", "g", "u", "s", "t", "a">>,
                                  [wikipedia_url |-> <<"w", "/", "P", "1", "_", "%", "2", "8", "x", "%", "2", "9">>,
                                   birth_date |-> <<1815, 12, 10>>, is_birth_bc |-> FALSE,
                                   death_date |-> None, is_death_bc |-> FALSE],
                                  None, None, at)}
          /\ assoc = [pair \in {<<<<"Q", "1">>, <<"Q", "2", "0">>>>} |-> 1]
    /\ wiki = [b \in WbIds |-> IdleWb]
    /\ probe = IdleProbe

NextWriters ==
    \/ \E t \in HdIds : HdStart(t)
    \/ \E t \in HdIds : HdLoad(t)
    \/ \E t \in HdIds : HdQueryLock(t)
    \/ \E t \in HdIds : HdAttemptOk(t, HdResponse(t))
    \/ \E t \in HdIds : HdTransaction(t)
    \/ \E t \in HdIds : HdTransactionFails(t)
    \/ \E t \in HdIds : HdFinally(t)
    \/ ScheduleWikipedia(1)
    \/ WbStart(1)
    \/ WbNext(1)
    \/ WbFetch(1, WikipediaSite(SplitStr(wiki[1].page_title, <<"#">>)[1]))
    \/ WbFetchError(1)
    \/ WbSleep(1)

SpecWriters == InitWriters /\ [][NextWriters]_vars

(***************************************************************************)
(* The lock pipeline: discovery, scheduling and enrichment of the days of  *)
(* DayPages against an endpoint that refuses every query.                  *)
(***************************************************************************)
InitLock ==
    /\ now = 0
    /\ locks = <<>>
    /\ counters = <<>>
    /\ disc = [d \in DiscIds |-> IdleDisc]
    /\ sched = [s \in SchedIds |-> IdleSched]
    /\ hd = [t \in HdIds |-> IdleHd]
    /\ places = {}
    /\ attributes = {}
    /\ persons = {}
    /\ assoc = <<>>
    /\ wiki = [b \in WbIds |-> IdleWb]
    /\ probe = IdleProbe

NextLock ==
    \/ \E d \in DiscIds, month \in {"January"}, day \in {1} : DiscQueue(d, month, day)
    \/ \E d \in DiscIds : DiscStart(d)
    \/ \E d \in DiscIds : DiscFetch(d)
    \/ \E d \in DiscIds : DiscFetchError(d)
    \/ \E s \in SchedIds : SchedStart(s)
    \/ \E s \in SchedIds : SchedBatch(s)
    \/ \E t \in HdIds : HdStart(t)
    \/ \E t \in HdIds : HdLoad(t)
    \/ \E t \in HdIds : HdQueryLock(t)
    \/ \E t \in HdIds : HdAttemptError(t)
    \/ \E t \in HdIds : HdTransaction(t)
    \/ \E t \in HdIds : HdFinally(t)
    \/ Tick

SpecLock == InitLock /\ [][NextLock]_vars

(***************************************************************************)
(* The lock pipeline with a store that can refuse the reads a task makes   *)
(* when it starts.                                                         *)
(***************************************************************************)
\* One of the reads of tasks.py 203-218 raises (the database is not
\* reachable): the statements stand before the try, the exception leaves
\* the task.
HdLoadRaises(t) ==
    /\ hd[t].pc = "load"
    /\ hd' = [hd EXCEPT ![t].pc = "raised"]
    /\ UNCHANGED <<now, locks, counters, disc, sched, store, aux>>

NextExits ==
    \/ NextLock
    \/ \E t \in HdIds : HdLoadRaises(t)

SpecExits == InitLock /\ [][NextExits]_vars

(***************************************************************************)
(* Workers that stop without reaching their finally clause (a crash, a     *)
(* hard kill), while Redis goes on counting the TTLs.  A key is only set   *)
(* while its TTL ends within the time the model follows.                   *)
(***************************************************************************)
DiscCrash(d) ==
    /\ disc[d].pc = "fetch"
    /\ disc' = [disc EXCEPT ![d].pc = "crashed"]
    /\ UNCHANGED <<now, locks, counters, sched, hd, store, aux>>

HdCrash(t) ==
    /\ hd[t].pc \in {"load", "qlock", "attempt", "txn", "finally"}
    /\ hd' = [hd EXCEPT ![t].pc = "crashed"]
    /\ UNCHANGED <<now, locks, counters, disc, sched, store, aux>>

NextCrash ==
    \/ \E d \in DiscIds, month \in {"January"}, day \in {1} : DiscQueue(d, month, day)
    \/ \E d \in DiscIds : now + LOCK_EXPIRE_TIME <= MaxTime /\ DiscStart(d)
    \/ \E d \in DiscIds : DiscFetch(d)
    \/ \E d \in DiscIds : DiscCrash(d)
    \/ \E s \in SchedIds : SchedStart(s)
    \/ \E s \in SchedIds : now + LOCK_EXPIRE_TIME <= MaxTime /\ SchedBatch(s)
    \/ \E t \in HdIds : now + LOCK_EXPIRE_TIME <= MaxTime /\ HdStart(t)
    \/ \E t \in HdIds : HdLoad(t)
    \/ \E t \in HdIds : now + QUERY_LOCK_EXPIRE <= MaxTime /\ HdQueryLock(t)
    \/ \E t \in HdIds : HdAttemptError(t)
    \/ \E t \in HdIds : HdTransaction(t)
    \/ \E t \in HdIds : HdFinally(t)
    \/ \E t \in HdIds : HdCrash(t)
    \/ Tick

\* Time passes whatever the workers do.
SpecCrash == InitLock /\ [][NextCrash]_vars /\ WF_vars(Tick)

(***************************************************************************)
(* Two scheduler runs over the same title list of more than one chunk.     *)
(* The second run got the list as it is, or with its first two titles in   *)
(* the other order (the links of a page that was edited in between).       *)
(***************************************************************************)
InitSched ==
    LET ManyTitles == [i \in 1..(BATCH_SIZE + 1) |-> i]
    IN
    /\ now = 0
    /\ locks = <<>>
    /\ counters = <<>>
    /\ disc = [d \in DiscIds |-> IdleDisc]
    /\ \E first \in {1, 2} :
          sched = [s \in SchedIds |->
            [IdleSched EXCEPT !.pc = "queued", !.month = "January", !.day = 1,
                              !.titles = IF s = 2 /\ first = 2
                                         THEN [i \in DOMAIN ManyTitles |->
                                                 IF i = 1 THEN 2 ELSE IF i = 2 THEN 1 ELSE i]
                                         ELSE ManyTitles]]
    /\ hd = [t \in HdIds |-> IdleHd]
    /\ places = {}
    /\ attributes = {}
    /\ persons = {}
    /\ assoc = <<>>
    /\ wiki = [b \in WbIds |-> IdleWb]
    /\ probe = IdleProbe

NextSched ==
    \/ \E s \in SchedIds : SchedStart(s)
    \/ \E s \in SchedIds : SchedBatch(s)
    \/ \E t \in HdIds : HdStart(t)
    \/ Tick

SpecSched == InitSched /\ [][NextSched]_vars

(***************************************************************************)
(* The scheduler over title sequences of the lengths around the multiples  *)
(* of BATCH_SIZE, the empty sequence included.                             *)
(***************************************************************************)
ChunkLengths == {0, 1, 2, 49, 50, 51, 99, 100, 101}

InitChunks ==
    /\ now = 0
    /\ locks = <<>>
    /\ counters = <<>>
    /\ disc = [d \in DiscIds |-> IdleDisc]
    /\ \E n \in ChunkLengths :
          sched = [s \in SchedIds |->
                     IF s = 1
                     THEN [IdleSched EXCEPT !.pc = "queued", !.month = "January", !.day = 1,
                                            !.titles = [i \in 1..n |-> ((i - 1) % (BATCH_SIZE + 1)) + 1]]
                     ELSE IdleSched]
    /\ hd = [t \in HdIds |-> IdleHd]
    /\ places = {}
    /\ attributes = {}
    /\ persons = {}
    /\ assoc = <<>>
    /\ wiki = [b \in WbIds |-> IdleWb]
    /\ probe = IdleProbe

SpecChunks == InitChunks /\ [][NextSched]_vars

(***************************************************************************)
(* Two scheduler runs that start in the same second, and the enrichment    *)
(* tasks they dispatch, against an endpoint that refuses every query.      *)
(***************************************************************************)
NextCounters ==
    \/ \E s \in SchedIds : SchedStart(s)
    \/ \E s \in SchedIds : SchedBatch(s)
    \/ \E t \in HdIds : HdStart(t)
    \/ \E t \in HdIds : HdLoad(t)
    \/ \E t \in HdIds : HdQueryLock(t)
    \/ \E t \in HdIds : HdAttemptError(t)
    \/ \E t \in HdIds : HdTransaction(t)
    \/ \E t \in HdIds : HdFinally(t)

SpecCounters == InitSched /\ [][NextCounters]_vars

(***************************************************************************)
(* Properties of the locks.                                                *)
(***************************************************************************)
DiscKey(d) == DayLockKey(disc[d].month, disc[d].day)

\* A worker holds a key while the key it set is present.
DiscHolds(d) ==
    /\ disc[d].pc = "fetch"
    /\ Present(locks, DiscKey(d))
    /\ locks[DiscKey(d)].by = <<"disc", d>>

HdHolds(t) ==
    /\ hd[t].pc \in {"load", "qlock", "attempt", "backoff", "txn", "finally"}
    /\ Present(locks, HdKey(t))
    /\ locks[HdKey(t)].by = <<"hd", t>>

\* C1: while a lock key is present every tryAcquire on it fails and leaves
\* the key as it is (the day lock: the task is ignored; the human_details
\* lock: the task returns), a key is taken only when it is absent, and no two
\* workers hold the day lock of one day or the human_details lock of one batch.
C1_LockMutualExclusion ==
    /\ [](\A d1, d2 \in DiscIds :
            DiscHolds(d1) /\ DiscHolds(d2) /\ DiscKey(d1) = DiscKey(d2) => d1 = d2)
    /\ [](\A t1, t2 \in HdIds :
            HdHolds(t1) /\ HdHolds(t2) /\ HdKey(t1) = HdKey(t2) => t1 = t2)
    /\ [][/\ \A k \in DOMAIN locks : k \in DOMAIN locks' => locks'[k] = locks[k]
          /\ \A d \in DiscIds :
                disc[d].pc = "queued" /\ disc'[d].pc # "queued" =>
                    IF Present(locks, DiscKey(d))
                    THEN disc'[d].pc = "ignored" /\ locks' = locks
                    ELSE disc'[d].pc = "fetch" /\ locks'[DiscKey(d)].by = <<"disc", d>>
          /\ \A t \in HdIds :
                hd[t].pc = "queued" /\ hd'[t].pc # "queued" =>
                    IF Present(locks, HdKey(t))
                    THEN hd'[t].pc = "skipped" /\ locks' = locks
                    ELSE hd'[t].pc = "load" /\ locks'[HdKey(t)].by = <<"hd", t>>]_vars

\* An enrichment task was refused the lock that another task of the same
\* batch holds.
C1_Witness ==
    \E t, u \in HdIds :
        /\ t # u
        /\ HdHolds(t)
        /\ hd[u].pc = "skipped"
        /\ HdKey(u) = HdKey(t)

\* The enrichment tasks that the scheduler runs `runs' dispatched for a batch.
TasksFor(batch, runs) ==
    {t \in HdIds : hd[t].pc # "idle" /\ hd[t].titles = batch /\ hd[t].src \in runs}

\* The second run s2 started when the first run s1 had taken the batch lock of
\* every chunk, and the locks are still present after both runs.
SecondCallInLockWindow(s1, s2) ==
    /\ s1 # s2
    /\ sched[s1].pc = "done"
    /\ sched[s2].pc = "done"
    /\ sched[s1].titles = sched[s2].titles
    /\ \A i \in 1..Len(sched[s1].batches) :
        LET key == BatchLockKey(sched[s1].batches[i]) IN
        /\ Present(locks, key)
        /\ locks[key].by = <<"sched", s1>>
        /\ locks[key].exp - LOCK_EXPIRE_TIME <= sched[s2].task_id

\* C2: when get_human_details_in_batches runs twice with the same title list
\* and the second run happens while the batch locks of the first are present,
\* exactly one get_human_details task is dispatched per chunk, none of them by
\* the second run, which ends normally.
C2_BatchDeduplication ==
    \A s1, s2 \in SchedIds :
        SecondCallInLockWindow(s1, s2) =>
            \A i \in 1..Len(sched[s1].batches) :
                /\ Cardinality(TasksFor(sched[s1].batches[i], {s1, s2})) = 1
                /\ TasksFor(sched[s1].batches[i], {s2}) = {}

C2_Witness ==
    \E s1, s2 \in SchedIds :
        /\ SecondCallInLockWindow(s1, s2)
        /\ Len(sched[s1].batches) = 2
        /\ Len(sched[s2].batches) = 2

\* The query lock key of the query a task is about to send.
HdQueryKey(t) == get_query_lock_key(HdQuery(t))

\* C10 as stated: while the query lock of a query body is present, no run
\* other than the one that set it sends that body.
C10_NoOtherRunSends ==
    [][\A t \in HdIds :
        (hd[t].pc = "attempt" /\ hd'[t].sends = hd[t].sends + 1) =>
            ~(Present(locks, HdQueryKey(t)) /\ locks[HdQueryKey(t)].by # <<"hd", t>>)]_vars

\* C10 amended: a run that finds the query lock of a body present sends
\* nothing and returns; a run sends a body only after it took the lock
\* itself (the lock may run out and be taken again while it still sends).
C10_LockedQueryNotStarted ==
    [][\A t \in HdIds :
        /\ hd'[t].sends > hd[t].sends => hd[t].pc = "attempt"
        /\ hd[t].pc = "qlock" /\ hd'[t] # hd[t] =>
            IF Present(locks, HdQueryKey(t))
            THEN hd'[t].pc = "finally" /\ hd'[t].sends = 0 /\ locks' = locks
            ELSE /\ hd'[t].pc = "attempt"
                 /\ hd'[t].sends = 0
                 /\ locks'[HdQueryKey(t)].by = <<"hd", t>>]_vars

\* A run returned at the query lock that another run had set.
C10_Witness ==
    \E t, u \in HdIds :
        /\ t # u
        /\ hd[t].pc = "finally"
        /\ hd[t].txn = "none"
        /\ hd[t].sends = 0
        /\ Present(locks, HdQueryKey(t))
        /\ locks[HdQueryKey(t)].by = <<"hd", u>>

(***************************************************************************)
(* Reconciliation (SpecStore)                                              *)
(***************************************************************************)
\* C3: whatever runs reconciled, and also when two runs reconciled the same
\* facts, the store has at most one Person per wikidata_id, one Place per
\* wikidata_id, one Attribute per wikidata_id and one association row per
\* (person, attribute) pair.
C3_NoDuplicateRows ==
    LET UniquePk(table) == \A r1, r2 \in table : r1.wikidata_id = r2.wikidata_id => r1 = r2
    IN /\ UniquePk(persons)
       /\ UniquePk(places)
       /\ UniquePk(attributes)
       /\ \A pair \in DOMAIN assoc : assoc[pair] = 1

\* Two runs that both found the person missing have both committed her
\* creation, at different times, with her attributes.
C3_Witness ==
    /\ hd[1].txn = "committed" /\ hd[2].txn = "committed"
    /\ DictHas(hd[1].humans_to_create_dict, <<"Q", "1">>)
    /\ DictHas(hd[2].humans_to_create_dict, <<"Q", "1">>)
    /\ HasPk(persons, <<"Q", "1">>)
    /\ \E pair \in DOMAIN assoc : pair[1] = <<"Q", "1">>
    /\ now > 0

\* C4: the writes of a run become visible together or not at all: the store
\* changes only in the step that commits a run's transaction.
C4_WritesOnlyAtCommit ==
    [][store' # store =>
          \E t \in HdIds : hd[t].pc = "txn" /\ hd'[t].txn = "committed"]_vars

\* The time a run started (its now() of tasks.py 198).
StartOf(t) == hd[t].two_minutes_ago + TWO_MINUTES

\* C5: a step of a run leaves every Person, Place and Attribute whose
\* timestamp lies in the two minutes before the run started as it is, and
\* the associations of such a Person too.
C5_FreshRowsUntouched ==
    [][\A t \in HdIds :
          LET FreshAtStart(u, stamp) == stamp >= hd[u].two_minutes_ago /\ stamp < StartOf(u) IN
          (hd[t].pc \in {"qlock", "attempt", "backoff", "txn"} /\ hd'[t] # hd[t]) =>
              /\ \A r \in persons :
                    FreshAtStart(t, r.last_wikidata_update) =>
                        /\ r \in persons'
                        /\ \A pair \in DOMAIN assoc' :
                              pair[1] = r.wikidata_id => pair \in DOMAIN assoc
              /\ \A r \in places : FreshAtStart(t, r.last_updated) => r \in places'
              /\ \A r \in attributes : FreshAtStart(t, r.last_updated) => r \in attributes'
      ]_vars

\* C6: when two runs overlap and both sight the same existing Person, the
\* row the first of them committed is still there, unchanged, after the
\* other commits within two minutes of it.
C6_FirstCommitNotOverwritten ==
    [][\A t, u \in HdIds :
          (/\ t # u
           /\ hd[t].pc = "txn" /\ hd'[t].pc # "txn"
           /\ hd[u].txn = "committed") =>
              \A r \in persons :
                  (/\ r.wikidata_id \in hd[t].existing_humans \cap hd[u].existing_humans
                   /\ DictHas(hd[u].humans_to_update_dict, r.wikidata_id)
                   /\ r.last_wikidata_update >= StartOf(t)
                   /\ r.last_wikidata_update >= now - TWO_MINUTES) =>
                      r \in persons'
      ]_vars

\* C9: a run that lost a query group to an error and has been through its
\* transaction, which the database did not refuse, has written every human
\* that the responses of its other groups described.
C9_SucceededGroupsWritten ==
    \A t \in HdIds :
        (/\ hd[t].pc = "done"
         /\ hd[t].failed # {}
         /\ hd[t].txn \in {"committed", "raised"}) =>
            \A i \in 1..Len(hd[t].humans_to_create_dict) :
                HasPk(persons, hd[t].humans_to_create_dict[i].k)

C8_MalformedNeverRetried ==
    /\ [](\A t \in HdIds : hd[t].pc \in {"attempt", "backoff"} => hd[t].g \notin hd[t].malformed)
    /\ [][\A t \in HdIds :
            /\ hd'[t].malformed # hd[t].malformed =>
                  /\ hd[t].pc = "attempt"
                  /\ hd'[t].malformed = hd[t].malformed \cup {hd[t].g}
                  /\ hd'[t].g = hd[t].g + 1
                  /\ hd'[t].pc \notin {"attempt", "backoff"}
            /\ hd[t].pc \in {"attempt", "backoff"} => hd'[t].g >= hd[t].g
       ]_vars

\* The signal arrived on the third attempt of the first group, after a
\* rate limit; the run is at the second group.
C8_Witness ==
    \E t \in HdIds :
        /\ hd[t].malformed = {1}
        /\ hd[t].g = 2 /\ hd[t].pc = "qlock"
        /\ hd[t].sends = 3 /\ hd[t].retry_after > 0

(***************************************************************************)
(* Discovery of a day that is already being discovered (SpecLock)          *)
(***************************************************************************)
\* C11: a get_linked_titles_from_day task that starts while the day lock of
\* its (month, day) is present is ignored (Ignore, not an error): it leaves
\* the locks as they are, dispatches no scheduler run, has collected no
\* title, and does nothing afterwards.
C11_DuplicateDiscoveryNoOp ==
    /\ [](\A d \in DiscIds : disc[d].pc = "ignored" => disc[d].all_titles = <<>>)
    /\ [][\A d \in DiscIds :
            /\ (/\ disc[d].pc = "queued"
                /\ disc'[d] # disc[d]
                /\ Present(locks, DiscKey(d))) =>
                    /\ disc'[d].pc = "ignored"
                    /\ locks' = locks
                    /\ sched' = sched
            /\ disc[d].pc = "ignored" => disc'[d] = disc[d]
       ]_vars

\* A discovery was ignored while another discovery of the same day holds
\* the lock and is fetching.
C11_Witness ==
    \E d, e \in DiscIds :
        /\ d # e
        /\ disc[d].pc = "ignored"
        /\ DiscHolds(e)
        /\ DiscKey(e) = DiscKey(d)

(***************************************************************************)
(* The identity of a batch (SpecSched)                                     *)
(***************************************************************************)
\* C12: two chunks that hold the same titles, in whatever order, have the
\* same batch lock key and the same human_details lock key, so that while
\* the batch lock of the one is present the other is not dispatched.
C12_OrderIndependentKey ==
    \A s1, s2 \in SchedIds :
        \A i \in 1..Len(sched[s1].batches), j \in 1..Len(sched[s2].batches) :
            LET b1 == sched[s1].batches[i]
                b2 == sched[s2].batches[j]
            IN (Len(b1) = Len(b2) /\ Range(b1) = Range(b2)) =>
                    /\ BatchLockKey(b1) = BatchLockKey(b2)
                    /\ HumanDetailsLockKey(b1) = HumanDetailsLockKey(b2)
                    /\ (/\ s1 # s2
                        /\ sched[s1].pc = "done" /\ sched[s2].pc = "done"
                        /\ Present(locks, BatchLockKey(b1))
                        /\ locks[BatchLockKey(b1)].by = <<"sched", s1>>
                        /\ locks[BatchLockKey(b1)].exp - LOCK_EXPIRE_TIME <= sched[s2].task_id) =>
                            TasksFor(b2, {s2}) = {}

(***************************************************************************)
(* The countdown of a scheduler run (SpecLock)                             *)
(***************************************************************************)
\* C13: once a scheduler run has gone through its chunks, and no other run
\* has the same task_id, its counter wiki_batches:{task_id} is the number
\* of its dispatched enrichment tasks that have not finished yet (zero when
\* all of them have), also when chunks were skipped as already in flight.
C13_CounterIsOutstanding ==
    \A s \in SchedIds :
        LET Outstanding ==
                {t \in HdIds : hd[t].src = s /\ hd[t].pc \notin {"idle", "skipped", "done"}}
        IN
        (/\ sched[s].pc = "done"
         /\ \A r \in SchedIds \ {s} :
               sched[r].pc \in {"idle", "queued"} \/ sched[r].task_id # sched[s].task_id) =>
            /\ sched[s].task_id \in DOMAIN counters
            /\ counters[sched[s].task_id] = Cardinality(Outstanding)

(***************************************************************************)
(* Attribute pairs and associations (SpecStore)                            *)
(***************************************************************************)
\* C14: after a run whose query groups were all answered has committed,
\* every person it created or updated has, for every pair decoded from any
\* attribute field of any group, the Attribute row and the association.
C14_EveryPairAssociated ==
    \A t \in HdIds :
        (hd[t].txn = "committed" /\ hd[t].failed = {}) =>
            \A n \in Range(hd[t].titles) \cap DOMAIN Wikidata :
                LET id == LastOf(SplitStr(Wikidata[n].item, <<"/">>))
                    DecodedAttributeIds ==
                        UNION {{SplitStr(pair, <<"|", "|">>)[1] :
                                    pair \in Range(SplitStr(Wikidata[n].attrs[f], <<"@", "@">>))} :
                               f \in DOMAIN Wikidata[n].attrs}
                IN
                (\/ DictHas(hd[t].humans_to_create_dict, id)
                 \/ DictHas(hd[t].humans_to_update_dict, id)) =>
                    \A a \in DecodedAttributeIds :
                        /\ HasPk(attributes, a)
                        /\ <<id, a>> \in DOMAIN assoc

(***************************************************************************)
(* parse_date (SpecPure)                                                   *)
(***************************************************************************)
\* C15: a candidate [-]YYYY-MM-DD[T...] that names a day of the calendar,
\* given alone as the direct value or as the statement value, is returned
\* as that year, month and day, with the BC flag set exactly when the
\* string starts with '-'.
C15_ValidDateParsed ==
    probe.pc = "parsed" =>
        \A is_bc \in BOOLEAN, year \in Years, month \in MonthNumbers, day \in DayNumbers,
           time_part \in TimeParts :
            (/\ ValidDate(year, month, day)
             /\ \/ /\ probe.date_values = DateString(is_bc, year, month, day, time_part)
                   /\ probe.date_statements \in {None, <<>>}
                \/ /\ probe.date_values \in {None, <<>>}
                   /\ probe.date_statements = DateString(is_bc, year, month, day, time_part)) =>
                probe.date = [kind |-> "return", date |-> <<year, month, day>>, is_bc |-> is_bc]

\* The BC date of the Ides of March with its time part, given as the
\* statement value, was parsed.
C15_Witness ==
    /\ probe.pc = "parsed"
    /\ probe.date_values = None
    /\ probe.date_statements = <<"-", "0", "0", "4", "4", "-", "0", "2", "-", "2", "9",
                                 "T", "0", "0", ":", "0", "0", ":", "0", "0", "Z">>
    /\ probe.date = [kind |-> "return", date |-> <<44, 2, 29>>, is_bc |-> TRUE]

\* C16: when every candidate of the input is URL-shaped or unparseable, empty
\* candidates and absent inputs included, parse_date returns (absent, BC flag
\* false) and raises nothing.
C16_BadInputAbsent ==
    (/\ probe.pc = "parsed"
     /\ \A candidate \in date_candidates(probe.date_values, probe.date_statements) :
            TryDate(candidate).kind # "return") =>
        probe.date = [kind |-> "return", date |-> None, is_bc |-> FALSE]

C18_AtMostTwoRequests ==
    \A b \in WbIds : Len(wiki[b].requested) <= 2

C20_NoRequestWithoutReference ==
    \A b \in WbIds :
        wiki[b].requested # <<>> => wiki[b].human.wikipedia_url # <<>>

(***************************************************************************)
(* Who the periodic sweep refreshes (SpecWiki)                             *)
(***************************************************************************)
\* C21: when schedule_wikipedia_data_collection runs, a stored person with
\* a non-empty Wikipedia reference whose last metadata update lies three
\* minutes in the past is in the batch it dispatches (and so ends with the
\* scraped values once the batch has run).
C21_RecentPersonDispatched ==
    [][\A b \in WbIds :
        (/\ wiki[b].pc = "idle"
         /\ wiki'[b].pc = "queued"
         /\ wiki'[b].sweep = "schedule_wikipedia_data_collection") =>
            \A r \in persons :
                (r.wikipedia_url # <<>> /\ r.last_wikipedia_update = {now - 180}) =>
                    r.wikidata_id \in wiki'[b].human_ids]_vars

C23_CategoryInEnumeration ==
    \A r \in attributes : r.category \in Range(ATTRIBUTE_CHOICES)

(***************************************************************************)
(* Place coordinates (SpecStore)                                           *)
(***************************************************************************)
\* C24: whatever places the runs created and updated in place, every Place
\* row has its latitude and its longitude both present or both absent.
C24_CoordinatesPaired ==
    \A r \in places : (r.latitude = NoNumber) <=> (r.longitude = NoNumber)

\* A place that a run found in the store was updated in place and has both
\* coordinates, and a place whose coordinates were URL-shaped was created
\* with neither.
C24_Witness ==
    /\ \E r \in places, t \in HdIds :
          /\ r.wikidata_id = <<"Q", "1", "0">>
          /\ HasPk(hd[t].existing_places, r.wikidata_id)
          /\ r.last_updated >= 0
          /\ r.latitude # NoNumber
          /\ r.longitude # NoNumber
    /\ \E r \in places :
          /\ r.wikidata_id = <<"Q", "1", "1">>
          /\ r.latitude = NoNumber
          /\ r.longitude = NoNumber

(***************************************************************************)
(* The two writers of the store (SpecWriters)                              *)
(***************************************************************************)
\* C25: no step of an enrichment task or of a refresh task removes a Person,
\* a Place or an Attribute row or a Person-Attribute association: the
\* primary keys of each table and the associated pairs only grow.
C25_NothingDeleted ==
    [][/\ Pks(persons) \subseteq Pks(persons')
       /\ Pks(places) \subseteq Pks(places')
       /\ Pks(attributes) \subseteq Pks(attributes')
       /\ DOMAIN assoc \subseteq DOMAIN assoc']_vars

\* Both writers wrote: the transaction committed a second person, a second
\* place and further associations, the refresh saved the first person, and
\* what the earlier run had stored is still there.
C25_Witness ==
    /\ \E t \in HdIds : hd[t].txn = "committed"
    /\ Pks(persons) = {<<"Q", "1">>, <<"Q", "2">>}
    /\ Pks(places) = {<<"Q", "1", "0">>, <<"Q", "1", "1">>}
    /\ <<<<"Q", "1">>, <<"Q", "2", "0">>>> \in DOMAIN assoc
    /\ Cardinality(DOMAIN assoc) > 1
    /\ \E r \in persons : r.wikidata_id = <<"Q", "1">> /\ r.last_wikipedia_update # NoNumber

\* C28: a step of the refresh task that saves a person leaves the person's
\* fact fields (name, dates and BC flags, places, last_wikidata_update) as
\* the store held them, whatever a transaction committed since the refresh
\* read the person.
C28_RefreshKeepsFacts ==
    [][(wiki[1].pc = "fetch" /\ wiki'[1].pc = "loop" /\ wiki'[1].has_metadata)
          => \A r \in persons :
                r.wikidata_id = wiki[1].human.wikidata_id
                   => \E s \in persons' :
                         /\ s.wikidata_id = r.wikidata_id
                         /\ s.name = r.name
                         /\ s.birth_date = r.birth_date
                         /\ s.is_birth_bc = r.is_birth_bc
                         /\ s.death_date = r.death_date
                         /\ s.is_death_bc = r.is_death_bc
                         /\ s.birth_place = r.birth_place
                         /\ s.death_place = r.death_place
                         /\ s.last_wikidata_update = r.last_wikidata_update]_vars

(***************************************************************************)
(* A failing transaction (SpecStore)                                       *)
(***************************************************************************)
\* C26: when the transaction of a get_human_details run fails, the step
\* leaves the store as it was and takes the task to its finally clause; from
\* then on the task never returns to the transaction or to a query, and its
\* next step ends the task with its batch lock deleted.
C26_TransactionFailureContained ==
    [][\A t \in HdIds :
          /\ (hd[t].pc = "txn" /\ hd'[t].txn \in {"raised", "failed"})
                => /\ hd'[t].pc = "finally"
                   /\ store' = store
          /\ hd[t].txn \in {"raised", "failed"}
                => /\ hd'[t].txn = hd[t].txn
                   /\ hd'[t].pc \in {"finally", "done"}
                   /\ hd'[t].pc = "done" => ~Present(locks', HdKey(t))
                   /\ hd'[t] # hd[t] => store' = store]_vars

\* A task whose transaction was refused, and a task whose transaction
\* raised, have ended, over a store that holds rows.
C26_Witness ==
    /\ \E t \in HdIds : hd[t].txn = "failed" /\ hd[t].pc = "done"
    /\ \E t \in HdIds : hd[t].txn = "raised" /\ hd[t].pc = "done"
    /\ persons # {}

(***************************************************************************)
(* A malformed attribute pair (SpecParse)                                  *)
(***************************************************************************)
\* C27: the run whose response holds the second human's gender without a
\* label, followed by the row of the first human, skips only that field:
\* when it has ended, the second human is stored with its name, birth date
\* and birth place, and the first human of the same response is stored.
C27_OnlyFieldSkipped ==
    (hd[2].pc = "done")
       => /\ \E r \in persons :
               /\ r.wikidata_id = <<"Q", "2">>
               /\ r.name = Wikidata[2].itemLabel
               /\ r.birth_date = <<44, 3, 15>>
               /\ r.is_birth_bc
               /\ r.birth_place = <<"Q", "1", "1">>
          /\ HasPk(persons, <<"Q", "1">>)

(***************************************************************************)
(* The pagination of discovery (SpecLock)                                  *)
(***************************************************************************)
\* C30: a discovery run that holds its day lock requests the next page
\* while the page it got is not the last, dispatches the scheduler in the
\* step that gets the last page and in no other, with the filter-passing
\* titles of all the day's pages in page order, and dispatches nothing in
\* the step in which a request fails; a run that has ended does nothing more.
C30_DispatchOnceAfterLastPage ==
    [][LET Dispatched(s) == sched[s].pc = "idle" /\ sched'[s].pc = "queued"
           AllLinks(pages) ==
               LET Flat[i \in 0..Len(pages)] == IF i = 0 THEN <<>> ELSE Flat[i - 1] \o pages[i]
               IN Flat[Len(pages)]
       IN
       /\ \A s \in SchedIds :
            Dispatched(s)
               => /\ \E d \in DiscIds :
                       /\ disc[d].pc = "fetch"
                       /\ disc'[d].pc = "done"
                       /\ sched'[s].month = disc[d].month
                       /\ sched'[s].day = disc[d].day
                       /\ sched'[s].titles = HumanLinks(AllLinks(DayPages(disc[d].month, disc[d].day)))
                  /\ \A s2 \in SchedIds \ {s} : ~Dispatched(s2)
       /\ \A d \in DiscIds :
            /\ (disc[d].pc = "fetch" /\ disc'[d] # disc[d])
                  => LET last == Len(DayPages(disc[d].month, disc[d].day)) IN
                     \/ /\ disc'[d].pc = "fetch"
                        /\ disc[d].page < last
                        /\ disc'[d].page = disc[d].page + 1
                        /\ \A s \in SchedIds : ~Dispatched(s)
                     \/ /\ disc'[d].pc = "done"
                        /\ disc[d].page = last
                        /\ \E s \in SchedIds : Dispatched(s)
                     \/ /\ disc'[d].pc = "failed"
                        /\ \A s \in SchedIds : ~Dispatched(s)
            /\ disc[d].pc \in {"done", "failed", "ignored"} => disc'[d] = disc[d]]_vars

\* One run got both pages and dispatched the two titles that pass the
\* filter, in page order; another run failed on its second page with a
\* title collected, and no second dispatch exists.
C30_Witness ==
    /\ \E d \in DiscIds : disc[d].pc = "done" /\ disc[d].all_titles = <<1, 2>>
    /\ \E d \in DiscIds : disc[d].pc = "failed" /\ disc[d].page = 2 /\ disc[d].all_titles = <<1>>
    /\ \E s \in SchedIds : sched[s].pc # "idle" /\ sched[s].titles = <<1, 2>>
    /\ Cardinality({s \in SchedIds : sched[s].pc # "idle"}) = 1

(***************************************************************************)
(* Locks whose holder crashed (SpecCrash)                                  *)
(***************************************************************************)
\* The keys the tasks of the day set: the day lock, the batch lock, the
\* human_details lock and the query locks of the attribute groups.
C29_Keys ==
    {DayLockKey("January", 1), BatchLockKey(<<1, 2>>), HumanDetailsLockKey(<<1, 2>>)}
        \cup {get_query_lock_key(get_sparql_query(<<1, 2>>, AttributeBatches[g], g = 1)) :
                g \in 1..Len(AttributeBatches)}

\* C29: a key is present only until its TTL has elapsed, whether or not its
\* holder crashed; a discovery task that starts when the key is absent gets
\* the lock; and no key stays present forever.
C29_LocksRecover ==
    /\ [](/\ DOMAIN locks \subseteq C29_Keys
          /\ \A k \in DOMAIN locks : locks[k].exp > now)
    /\ [][\A d \in DiscIds :
            (disc[d].pc = "queued" /\ disc'[d].pc # "queued"
                /\ ~Present(locks, DayLockKey(disc[d].month, disc[d].day)))
               => /\ disc'[d].pc = "fetch"
                  /\ Present(locks', DayLockKey(disc[d].month, disc[d].day))
                  /\ locks'[DayLockKey(disc[d].month, disc[d].day)].by = <<"disc", d>>]_vars
    /\ \A k \in C29_Keys : []<>(~Present(locks, k))

\* The holder of the day lock crashed, the TTL elapsed, and another
\* discovery task holds the key; an enrichment task crashed as well.
C29_Witness ==
    /\ now >= LOCK_EXPIRE_TIME
    /\ \E d1 \in DiscIds, d2 \in DiscIds :
          /\ disc[d1].pc = "crashed"
          /\ disc[d2].pc = "fetch"
          /\ Present(locks, DayLockKey("January", 1))
          /\ locks[DayLockKey("January", 1)].by = <<"disc", d2>>

(***************************************************************************)
(* The pace of a refresh batch (SpecWiki)                                  *)
(***************************************************************************)
\* C31: within one batch, the task does not go from the page requests of
\* one person to the first request of the next person without a delay
\* step in between: a loop round that starts a fetch finds no request made
\* since the batch started or since the last delay.
C31_DelayBetweenPersons ==
    [][\A b \in WbIds :
          (wiki[b].pc = "loop" /\ wiki'[b].pc = "fetch") => wiki[b].requested = <<>>]_vars

C34_SuccessEndsAttempts ==
    [][\A t \in HdIds :
          (/\ hd[t].pc = "attempt"
           /\ hd'[t].sends = hd[t].sends + 1
           /\ hd'[t].failed = hd[t].failed)
             => /\ hd'[t].g = hd[t].g + 1
                /\ hd'[t].pc \in {"qlock", "txn"}]_vars

(***************************************************************************)
(* Whose lock a release clears (SpecLock)                                  *)
(***************************************************************************)
\* C35: the release at the end of a discovery task or of an enrichment
\* task leaves the key as it is when the key is by then held by another
\* task (the ending task's own lock having expired).
C35_ReleaseOnlyOwnLock ==
    [][/\ \A d \in DiscIds :
            (/\ disc[d].pc = "fetch"
             /\ disc'[d].pc \in {"done", "failed"}
             /\ Present(locks, DiscKey(d))
             /\ locks[DiscKey(d)].by # <<"disc", d>>)
               => /\ Present(locks', DiscKey(d))
                  /\ locks'[DiscKey(d)] = locks[DiscKey(d)]
       /\ \A t \in HdIds :
            (/\ hd[t].pc = "finally"
             /\ hd'[t].pc = "done"
             /\ Present(locks, HdKey(t))
             /\ locks[HdKey(t)].by # <<"hd", t>>)
               => /\ Present(locks', HdKey(t))
                  /\ locks'[HdKey(t)] = locks[HdKey(t)]]_vars

(***************************************************************************)
(* The exits of a task that holds a lock (SpecExits)                       *)
(***************************************************************************)
\* C36: a discovery task or an enrichment task that has ended, by a return
\* or by an exception, does not leave behind the lock it acquired.
C36_EndedTaskHoldsNoLock ==
    /\ \A d \in DiscIds :
          disc[d].pc \in {"done", "failed"}
             => ~(Present(locks, DiscKey(d)) /\ locks[DiscKey(d)].by = <<"disc", d>>)
    /\ \A t \in HdIds :
          hd[t].pc \in {"done", "raised"}
             => ~(Present(locks, HdKey(t)) /\ locks[HdKey(t)].by = <<"hd", t>>)

(***************************************************************************)
(* The countdown counters (SpecCounters)                                   *)
(***************************************************************************)
\* C37: the counter of every scheduler run is at least zero in every
\* reachable state.
C37_CountersNotNegative ==
    \A x \in DOMAIN counters : counters[x] >= 0

(***************************************************************************)
(* Statistics the page information does not show (SpecWiki)                *)
(***************************************************************************)
\* C38: when a metadata refresh saves a person and the page information
\* lacks a statistic (length, views, total edits, recent edits, creation
\* date) or its text cannot be parsed, the person's stored value of that
\* statistic stays as it was.
C38_MissingStatisticKept ==
    [][\A b \in WbIds :
          (wiki[b].pc = "fetch" /\ wiki'[b].pc = "loop" /\ wiki'[b].has_metadata)
             => \A old \in persons, new \in persons' :
                   (old.wikidata_id = wiki[b].human.wikidata_id /\ new.wikidata_id = old.wikidata_id)
                      => /\ wiki'[b].metadata.page_length = NoNumber
                               => new.article_length = old.article_length
                         /\ wiki'[b].metadata.page_views_30_days = NoNumber
                               => new.article_recent_views = old.article_recent_views
                         /\ wiki'[b].metadata.edit_count = NoNumber
                               => new.article_total_edits = old.article_total_edits
                         /\ wiki'[b].metadata.recent_edits_30_days = NoNumber
                               => new.article_recent_edits = old.article_recent_edits
                         /\ wiki'[b].metadata.created_date = None
                               => new.article_created_date = old.article_created_date]_vars

(***************************************************************************)
(* Places of created persons (SpecNames)                                   *)
(***************************************************************************)
\* C39: after a committed reconciliation pass every person it created
\* whose parsed facts carry a birth (death) place id references the Place
\* row with that id, also when a stored Place with another id has the same
\* name.
C39_CreatedPersonsReferencePlaces ==
    [][\A t \in HdIds :
          (hd[t].pc = "txn" /\ hd'[t].txn = "committed")
             => \A e \in Range(hd[t].humans_to_create_dict) :
                   \A r \in persons' :
                      (r.wikidata_id = e.k /\ ~HasPk(persons, e.k))
                         => /\ ~Falsy(e.v.core.birth_place_id)
                                  => /\ r.birth_place = e.v.core.birth_place_id
                                     /\ HasPk(places', e.v.core.birth_place_id)
                            /\ ~Falsy(e.v.core.death_place_id)
                                  => /\ r.death_place = e.v.core.death_place_id
                                     /\ HasPk(places', e.v.core.death_place_id)]_vars

(***************************************************************************)
(* A run that finds a query lock present (SpecSkip)                        *)
(***************************************************************************)
\* C40: a run that finds the query lock of an attribute group present sends
\* no further query and executes no transaction; what it parsed from the
\* earlier groups is not written: the store is what it was when the run
\* began; and when the run has ended its human_details lock is gone and
\* the run's counter is one less.
C40_QueryLockSkipAbandonsBatch ==
    \A t \in HdIds :
        (hd[t].pc \in {"finally", "done"} /\ hd[t].txn = "none")
           => /\ hd[t].sends = 0
              /\ places = EarlierStore.places
              /\ attributes = EarlierStore.attributes
              /\ persons = {}
              /\ assoc = <<>>
              /\ hd[t].pc = "done"
                    => /\ ~Present(locks, HdKey(t))
                       /\ counters[hd[t].task_id] = 0

=============================================================================
